---- MODULE Spec2Model ----
(***************************************************************************)
(* Scroll-driven map choreography (dam-busters): the scene lifecycle       *)
(* manager (map/sceneUtils.js), the crossfade controller and the hash and  *)
(* message adapters (map/main module), and the discrete and continuous     *)
(* time-control handlers (animateOnSlide / animateOnScroll).               *)
(*                                                                         *)
(* Conventions                                                             *)
(*  - JavaScript runs one handler at a time: every action below is one     *)
(*    complete event handler (or one exported function called directly).   *)
(*  - Handlers call each other and mutate module-level variables, so each  *)
(*    function of the source is a transformer on the record Cur of all     *)
(*    program variables; an action applies the composed transformer.       *)
(*    The record also carries a field "did", the calls the handler made    *)
(*    while it ran; it is not program state and is not kept between        *)
(*    handlers.  A property of a handler is stated over its result from    *)
(*    every reachable state, e.g. hashListener(Cur, h).                    *)
(*  - Time is in milliseconds.  Timers hold the time remaining until they  *)
(*    fire; Tick never steps over a pending timer.                         *)
(*  - progress / t are percentages (50 stands for 0.5), so opacities are   *)
(*    percentages too.                                                     *)
(*  - Timestamps are epoch milliseconds (what new Date(x).getTime() gives) *)
(***************************************************************************)
EXTENDS Integers, Sequences, FiniteSets, TLC

VARIABLES
    \* ---- map/sceneUtils.js
    sceneElement,       \* 0 (null) or the id of the <arcgis-scene> element
    sceneView,          \* 0 (null) or the id of the element whose view was captured
    activeWatcher,      \* is a reactiveUtils.watch handle held
    needSceneLast,      \* "null" | "true" | "false"
    needScene,          \* "null" | "true" | "false"
    sinceLastSync,      \* Date.now() - lastSyncTime, saturated
    sceneDestroyTimer,  \* NoTimer or ms until the destroy callback runs
    isSyncing,          \* busy flag of syncViews
    releaseTimers,      \* ms remaining of each pending "isSyncing = false" timeout
    \* ---- the DOM and the mapping engine
    sceneDom,           \* ids of the scene elements inside sceneContainer
    sceneGen,           \* id given to the most recently created scene element
    readyPending,       \* the current scene element has not yet raised arcgisViewReadyChange
    hidden,             \* container -> has class "hidden"
    opacity,            \* container -> style.opacity, in percent
    pointerEvents,      \* container -> style.pointerEvents
    sliders,            \* time-control widget of each surface
    environment,        \* view.environment of each surface's view
    layerVisible,       \* view.map.layers of each surface: title -> visible
    pendingNav,         \* the goTo of each view that has not settled: its caller
    lastRotation,       \* rotation of the last interpolated target given to goTo
    watchers,           \* watch handles registered on the primary view and not removed
    viewScale,          \* viewpoint.scale of each surface's view
    latitude,           \* center.latitude of each surface's view, in degrees
    layerList,          \* view.map.layers of each surface: the layer objects in order
    trackWaits,         \* pending 'await trackLayer.when()' continuations, oldest first
    \* ---- map main module
    slides,
    mapView,            \* has the primary view been captured
    isEmbedded,
    hashIndexLast,
    hashIndex

vars == <<sceneElement, sceneView, activeWatcher, needSceneLast, needScene,
          sinceLastSync, sceneDestroyTimer, isSyncing, releaseTimers,
          sceneDom, sceneGen, readyPending, hidden, opacity, pointerEvents,
          sliders, environment, layerVisible, pendingNav, lastRotation,
          watchers, viewScale, latitude, layerList, trackWaits,
          slides, mapView, isEmbedded, hashIndexLast, hashIndex>>

----------------------------------------------------------------------------
(* Program constants *)

SYNC_THROTTLE_MS == 100
SYNC_DEBOUNCE_MS == 100
SCENE_DESTROY_DELAY == 600

(* Sentinels for values that are not slide indices *)
Null == 0 - 1           \* null (hashIndexLast, hashIndex before the first event)
NaN == 0 - 2            \* parseInt of a fragment that is not a number
NoTimer == 0 - 1        \* sceneDestroyTimer === null
Undef == 0 - 3          \* undefined, where a number is expected

(* Bounds of the model *)
MaxSinceSync == 200     \* saturation of the time since the last watcher sync

TickSteps == {100}

Surfaces == {0, 1}

Min(a, b) == IF a < b THEN a ELSE b
Max(a, b) == IF a > b THEN a ELSE b

(* Math.ceil(n / d) for d > 0 *)
CeilDiv(n, d) == IF n >= 0 THEN (n + d - 1) \div d ELSE -((-n) \div d)

----------------------------------------------------------------------------
(* Slides.  An absent field is NoMaps / NoTS. *)

NoMaps == <<>>
NoTS == [timeSliderStart |-> 0, timeSliderEnd |-> 0, timeSliderStep |-> 0,
         timeSliderUnit |-> "absent"]

TS(s, e, step, unit) ==
    [timeSliderStart |-> s, timeSliderEnd |-> e, timeSliderStep |-> step,
     timeSliderUnit |-> unit]

(* viewpoint: does it carry a camera, does it carry a targetGeometry; its
   rotation and its camera's heading, Undef when the property is missing *)
NoVP == [present |-> FALSE, camera |-> FALSE, targetGeometry |-> FALSE,
         rotation |-> Undef, heading |-> Undef]
VP(cam, geom) == [present |-> TRUE, camera |-> cam, targetGeometry |-> geom,
                  rotation |-> Undef, heading |-> Undef]

NoLV == [present |-> FALSE, layersOn |-> {}, layersOff |-> {}]
LV(on, off) == [present |-> TRUE, layersOn |-> on, layersOff |-> off]

NoTR == [present |-> FALSE, trackLayerName |-> "none", trackInfo |-> "none"]
TR(name) == [present |-> TRUE, trackLayerName |-> name, trackInfo |-> "lines"]
TRI(name, info) == [present |-> TRUE, trackLayerName |-> name, trackInfo |-> info]

(* environment: a missing property is "undefined" / Undef *)
NoLighting == [present |-> FALSE, type |-> "undefined", datetime |-> Undef,
               displayUTCOffset |-> Undef]
Lighting(type, datetime, offset) ==
    [present |-> TRUE, type |-> type, datetime |-> datetime,
     displayUTCOffset |-> offset]

NoWeather == [present |-> FALSE, type |-> "undefined", cloudCover |-> Undef,
              precipitation |-> Undef]
Weather(type, cloudCover, precipitation) ==
    [present |-> TRUE, type |-> type, cloudCover |-> cloudCover,
     precipitation |-> precipitation]

NoEnv == [present |-> FALSE, lighting |-> NoLighting, weather |-> NoWeather,
          atmosphereEnabled |-> "undefined", starsEnabled |-> "undefined"]
Env(lighting, weather, atmosphere, stars) ==
    [present |-> TRUE, lighting |-> lighting, weather |-> weather,
     atmosphereEnabled |-> atmosphere, starsEnabled |-> stars]

(* a slide with a maps array and a time window; keys are the slide's own
   property names in the order of the JSON text *)
Slide(m, ts) ==
    [defined |-> TRUE, maps |-> m, timeSlider |-> ts, viewpoint |-> NoVP,
     layerVisibility |-> NoLV, trackRenderer |-> NoTR, environment |-> NoEnv,
     keys |-> (IF m = NoMaps THEN <<>> ELSE <<"maps">>)
              \o (IF ts = NoTS THEN <<>> ELSE <<"timeSlider">>)]

(* slides[i] for an i outside the array *)
NoSlide == [Slide(NoMaps, NoTS) EXCEPT !.defined = FALSE]

(* slides[i] of a 0-based JavaScript array is undefined outside the array *)
InRange(sl, i) == i >= 0 /\ i < Len(sl)
At(sl, i) == sl[i + 1]
AtOrUndefined(sl, i) == IF InRange(sl, i) THEN At(sl, i) ELSE NoSlide

(* The choreographies loadChoreography may load.
   ChorScene: slide 0 is more than one slide away from every slide that uses
   the scene; slide 1 is next to one; slide 2 crossfades from the map to the
   scene; slide 3 shows the scene alone.
   ChorTime: time windows on the primary surface: a one-second step, a step
   of 0, an unrecognized unit, and a slide without a time window. *)
ChorScene ==
    << Slide(<<0>>,    NoTS),
       Slide(<<0>>,    NoTS),
       Slide(<<0, 1>>, NoTS),
       Slide(<<1>>,    NoTS) >>

ChorTime ==
    << Slide(<<0>>, TS(1000, 5000, 1, "seconds")),
       Slide(<<0>>, TS(1000, 3000, 0, "seconds")),
       Slide(<<0>>, TS(2000, 4000, 1, "fortnights")),
       Slide(<<0>>, NoTS) >>

Choreographies == {ChorScene, ChorTime}

----------------------------------------------------------------------------
(* The program state as one record, and its write-back *)

(* What a handler did while it ran *)
NoCalls ==
    [configured |-> 0,      \* calls of configureMap for the scene
     ensured |-> 0,         \* calls of ensureScene
     returned |-> Null,     \* element returned by the last ensureScene
     scheduled |-> FALSE,   \* scheduleSceneDestroy was called
     evaluated |-> Null,    \* index given to createScene
     threw |-> FALSE,       \* the handler ended by an uncaught exception
     synced |-> 0,          \* navigations issued by syncViews
     timeSet |-> 0,         \* assignments to a time slider's timeExtent
     played |-> 0,          \* timeSlider.play() calls
     stopped |-> 0,         \* timeSlider.stop() calls
     discrete |-> 0,        \* slideAnimation dispatches
     continuous |-> 0,      \* scrollAnimation dispatches
     invoked |-> <<>>,      \* keys whose handler was called, in call order
     raised |-> FALSE,      \* the handler that just ran ended by an exception
     caught |-> 0,          \* exceptions caught by a dispatch loop
     navigated |-> 0,       \* view.goTo calls
     trackReset |-> 0,      \* track layers removed and re-added
     abortLogged |-> 0,     \* AbortError rejections passed to console.error
     abortUnhandled |-> 0,  \* AbortError rejections with no handler
     watched |-> 0,         \* reactiveUtils.watch calls
     unwatched |-> 0,       \* watch handles removed
     syncedScale |-> Undef] \* scale of the viewpoint syncViews gave to goTo


Cur ==
    [sceneElement |-> sceneElement, sceneView |-> sceneView,
     activeWatcher |-> activeWatcher, needSceneLast |-> needSceneLast,
     needScene |-> needScene, sinceLastSync |-> sinceLastSync,
     sceneDestroyTimer |-> sceneDestroyTimer, isSyncing |-> isSyncing,
     releaseTimers |-> releaseTimers, sceneDom |-> sceneDom,
     sceneGen |-> sceneGen, readyPending |-> readyPending, hidden |-> hidden,
     opacity |-> opacity, pointerEvents |-> pointerEvents, sliders |-> sliders,
     environment |-> environment, layerVisible |-> layerVisible,
     pendingNav |-> pendingNav, lastRotation |-> lastRotation,
     watchers |-> watchers,
     viewScale |-> viewScale,
     latitude |-> latitude,
     layerList |-> layerList,
     trackWaits |-> trackWaits,
     slides |-> slides, mapView |-> mapView, isEmbedded |-> isEmbedded,
     hashIndexLast |-> hashIndexLast, hashIndex |-> hashIndex, did |-> NoCalls]

Becomes(s) ==
    /\ sceneElement' = s.sceneElement
    /\ sceneView' = s.sceneView
    /\ activeWatcher' = s.activeWatcher
    /\ needSceneLast' = s.needSceneLast
    /\ needScene' = s.needScene
    /\ sinceLastSync' = s.sinceLastSync
    /\ sceneDestroyTimer' = s.sceneDestroyTimer
    /\ isSyncing' = s.isSyncing
    /\ releaseTimers' = s.releaseTimers
    /\ sceneDom' = s.sceneDom
    /\ sceneGen' = s.sceneGen
    /\ readyPending' = s.readyPending
    /\ hidden' = s.hidden
    /\ opacity' = s.opacity
    /\ pointerEvents' = s.pointerEvents
    /\ sliders' = s.sliders
    /\ environment' = s.environment
    /\ layerVisible' = s.layerVisible
    /\ pendingNav' = s.pendingNav
    /\ lastRotation' = s.lastRotation
    /\ watchers' = s.watchers
    /\ viewScale' = s.viewScale
    /\ latitude' = s.latitude
    /\ layerList' = s.layerList
    /\ trackWaits' = s.trackWaits
    /\ slides' = s.slides
    /\ mapView' = s.mapView
    /\ isEmbedded' = s.isEmbedded
    /\ hashIndexLast' = s.hashIndexLast
    /\ hashIndex' = s.hashIndex

(* A time-control widget as the engine creates it *)
NewSlider ==
    [fullStart |-> 0, fullEnd |-> 0, extentEnd |-> 0, state |-> "ready",
     stopsValue |-> 0, stopsUnit |-> "none"]

(* view.environment: undefined on the 2D view; on the scene view the web
   scene's environment.  A property that is not there is "undefined"/Undef. *)
EnvObject(lighting, weather, atmosphere, stars) ==
    [defined |-> TRUE, lighting |-> lighting, weather |-> weather,
     atmosphereEnabled |-> atmosphere, starsEnabled |-> stars]

LightingObject(type, date, datetime, offset) ==
    [type |-> type, date |-> date, datetime |-> datetime,
     displayUTCOffset |-> offset]

WeatherObject(type, cloudCover, precipitation) ==
    [type |-> type, cloudCover |-> cloudCover, precipitation |-> precipitation]

NoEnvObject ==
    [defined |-> FALSE,
     lighting |-> LightingObject("undefined", Undef, Undef, Undef),
     weather |-> WeatherObject("undefined", Undef, Undef),
     atmosphereEnabled |-> "undefined", starsEnabled |-> "undefined"]

SceneDate == 3600000

SceneEnvObject ==
    EnvObject(LightingObject("sun", SceneDate, Undef, Undef),
              WeatherObject("sunny", 50, Undef), "true", "true")

NewEnvironment == [c \in Surfaces |-> IF c = 1 THEN SceneEnvObject ELSE NoEnvObject]

(* the viewpoint a view starts from: its scale and its centre's latitude *)
InitialScale == 1000

InitialLatitude == 0

(* the layers of the web map and of the web scene, by title *)
LayerTitles == {"dams", "track"}
NewLayers == [t \in LayerTitles |-> t = "dams"]

(* what the track-renderer handler writes to a layer: timeInfo.interval and
   trackInfo *)
TrackConfig(unit, step, info) == [unit |-> unit, step |-> step, trackInfo |-> info]

NoTrackConfig == TrackConfig("none", 0, "none")

(* a layer object: its identity, its title, and its track configuration *)
Layer(object, title, config) ==
    [object |-> object, title |-> title, config |-> config]

(* view.map.layers as the web map / web scene loads it *)
NewLayerList ==
    << Layer(1, "track", NoTrackConfig), Layer(2, "dams", NoTrackConfig) >>

----------------------------------------------------------------------------
(* map/sceneUtils.js *)

Bool(b) == IF b THEN "true" ELSE "false"

(* slide && slide.maps && slide.maps.includes(1) *)
UsesScene(sl, i) ==
    /\ InRange(sl, i)
    /\ At(sl, i).maps # NoMaps
    /\ \E k \in 1..Len(At(sl, i).maps) : At(sl, i).maps[k] = 1

(* evaluateSceneLifecycle that looks only at the current and the next slide *)
evaluateSceneLifecycleNoLookbehind(index, sl) ==
    LET nearbySlides == <<index, index + 1>>
    IN  \E k \in 1..Len(nearbySlides) : UsesScene(sl, nearbySlides[k])

evaluateSceneLifecycle(index, sl) ==
    LET nearbySlides == <<index - 1, index, index + 1>>
    IN  \E k \in 1..Len(nearbySlides) : UsesScene(sl, nearbySlides[k])

(* destroyScene that leaves the captured view reference behind *)
destroySceneKeepsView(s) ==
    IF s.sceneElement = 0 THEN s
    ELSE [s EXCEPT !.sceneDom = @ \ {s.sceneElement},
                   !.readyPending = FALSE,
                   !.sliders[1] = NewSlider,
                   !.environment[1] = SceneEnvObject,
                   !.layerVisible[1] = NewLayers,
                   !.pendingNav[1] = "none",
                   !.lastRotation[1] = Undef,
                   !.viewScale[1] = InitialScale,
                   !.latitude[1] = InitialLatitude,
                   !.layerList[1] = NewLayerList,
                   !.trackWaits = SelectSeq(@, LAMBDA w : w.view # 1),
                   !.sceneElement = 0]

(* sceneView.destroy(), sceneElement.remove(); the scene's own time slider
   is a child of the element and goes with it, and so do the view's
   environment, layers and navigation *)
destroyScene(s) ==
    IF s.sceneElement = 0 THEN s
    ELSE [s EXCEPT !.sceneDom = @ \ {s.sceneElement},
                   !.readyPending = FALSE,
                   !.sliders[1] = NewSlider,
                   !.environment[1] = SceneEnvObject,
                   !.layerVisible[1] = NewLayers,
                   !.pendingNav[1] = "none",
                   !.lastRotation[1] = Undef,
                   !.viewScale[1] = InitialScale,
                   !.latitude[1] = InitialLatitude,
                   !.layerList[1] = NewLayerList,
                   !.trackWaits = SelectSeq(@, LAMBDA w : w.view # 1),
                   !.sceneElement = 0,
                   !.sceneView = 0]

cancelScheduledSceneDestroy(s) ==
    IF s.sceneDestroyTimer # NoTimer
    THEN [s EXCEPT !.sceneDestroyTimer = NoTimer]
    ELSE s

scheduleSceneDestroy(s, delay) ==
    [cancelScheduledSceneDestroy(s) EXCEPT !.sceneDestroyTimer = delay,
                                           !.did.scheduled = TRUE]

(* the callback given to setTimeout by scheduleSceneDestroy *)
destroyTimerCallback(s) ==
    LET d == IF s.sceneElement # 0 THEN destroyScene(s) ELSE s
    IN  [d EXCEPT !.sceneDestroyTimer = NoTimer]

(* configureMap(animationConfig, 1, ...): reuses the scene element found in
   the container, otherwise creates one (with its own time slider) *)
configureMapScene(s) ==
    LET fresh == 3 - s.sceneGen
        found == s.sceneDom # {}
        el == IF found THEN CHOOSE e \in s.sceneDom : TRUE ELSE fresh
        c == IF found THEN s
             ELSE [s EXCEPT !.sceneDom = @ \cup {fresh},
                            !.sceneGen = fresh,
                            !.readyPending = TRUE,
                            !.sliders[1] = NewSlider]
    IN  [c EXCEPT !.sceneElement = el,
                  !.did.configured = @ + 1]

(* ensureScene that returns the existing element without cancelling a
   scheduled destroy *)
ensureSceneKeepsTimer(s) ==
    LET r == IF s.sceneElement # 0 THEN s ELSE configureMapScene(s)
    IN  [r EXCEPT !.did.ensured = @ + 1,
                  !.did.returned = r.sceneElement]

(* ensureScene without the early return for an existing element *)
ensureSceneAlwaysConfigures(s) ==
    LET r == configureMapScene(cancelScheduledSceneDestroy(s))
    IN  [r EXCEPT !.did.ensured = @ + 1,
                  !.did.returned = r.sceneElement]

ensureScene(s) ==
    LET r == IF s.sceneElement # 0
             THEN cancelScheduledSceneDestroy(s)
             ELSE configureMapScene(s)
    IN  [r EXCEPT !.did.ensured = @ + 1,
                  !.did.returned = r.sceneElement]

(* syncViews(fromView, toView); a view is given as its surface (0 or 1) and
   is truthy when that view has been captured *)
ViewOf(s, surface) == IF surface = 0 THEN s.mapView ELSE s.sceneView # 0

(* view.goTo(...) called on a live view by caller "discrete" (toggleViewpoint),
   "continuous" (interpolateViewpoint) or "sync" (syncViews).  A goTo of the
   same view that has not settled is superseded: its promise is rejected
   with an AbortError, which goes to the rejection handler its caller
   attached - toggleViewpoint's logs every error, interpolateViewpoint's
   drops AbortError, syncViews attaches none. *)
goTo(s, surface, caller) ==
    LET earlier == s.pendingNav[surface]
    IN  [s EXCEPT !.pendingNav[surface] = caller,
                  !.did.navigated = @ + 1,
                  !.did.abortLogged = @ + (IF earlier = "discrete" THEN 1 ELSE 0),
                  !.did.abortUnhandled = @ + (IF earlier = "sync" THEN 1 ELSE 0)]

(* view.type *)
ViewType(surface) == IF surface = 0 THEN "2d" ELSE "3d"

(* Math.cos((lat * Math.PI) / 180), in percent, for the latitudes used *)
CosPercent(lat) ==
    CASE lat = 0 -> 100
      [] lat = 60 -> 50
      [] lat = 0 - 60 -> 50

(* the scale of the clone of fromView.viewpoint after the adjustment:
   vp.scale /= factor from 3d to 2d, vp.scale *= factor from 2d to 3d *)
SyncedScale(s, fromSurface, toSurface) ==
    LET scale == s.viewScale[fromSurface]
        scaleConversionFactor == CosPercent(s.latitude[fromSurface])
    IN  IF ViewType(fromSurface) = "3d" /\ ViewType(toSurface) = "2d"
        THEN (scale * 100) \div scaleConversionFactor
        ELSE IF ViewType(fromSurface) = "2d" /\ ViewType(toSurface) = "3d"
        THEN (scale * scaleConversionFactor) \div 100
        ELSE scale

(* toView.goTo(vp, { animate: false }): the destination takes the synced
   viewpoint - its scale and its centre *)
applySync(s, fromSurface, toSurface) ==
    [goTo(s, toSurface, "sync")
        EXCEPT !.viewScale[toSurface] = SyncedScale(s, fromSurface, toSurface),
               !.latitude[toSurface] = s.latitude[fromSurface],
               !.did.syncedScale = SyncedScale(s, fromSurface, toSurface)]

(* syncViews without the test of the busy flag *)
syncViewsNoGuard(s, fromSurface, toSurface) ==
    IF ~ViewOf(s, fromSurface) \/ ~ViewOf(s, toSurface) THEN s
    ELSE [applySync(s, fromSurface, toSurface)
            EXCEPT !.isSyncing = TRUE,
                   !.did.synced = @ + 1,
                   !.releaseTimers = Append(@, SYNC_DEBOUNCE_MS)]

syncViews(s, fromSurface, toSurface) ==
    IF ~ViewOf(s, fromSurface) \/ ~ViewOf(s, toSurface) \/ s.isSyncing THEN s
    ELSE [applySync(s, fromSurface, toSurface)
            EXCEPT !.isSyncing = TRUE,
                   !.did.synced = @ + 1,
                   !.releaseTimers = Append(@, SYNC_DEBOUNCE_MS)]

(* if (activeWatcher) activeWatcher.remove(); createScene's second use also
   nulls the handle *)
removeWatcher(s) ==
    IF s.activeWatcher
    THEN [s EXCEPT !.activeWatcher = FALSE,
                   !.watchers = @ - 1,
                   !.did.unwatched = @ + 1]
    ELSE s

(* activeWatcher = reactiveUtils.watch(() => mapView.viewpoint, callback) *)
watch(s) ==
    [s EXCEPT !.activeWatcher = TRUE,
              !.watchers = @ + 1,
              !.did.watched = @ + 1]

(* createScene that leaves the watcher in place when the scene is not
   required (the watcher goes only with the scene) *)
createSceneKeepsWatcher(s, index) ==
    LET need == evaluateSceneLifecycle(index, s.slides)
        s1 == [s EXCEPT !.needSceneLast = s.needScene,
                        !.needScene = Bool(need),
                        !.did.evaluated = index]
    IN  IF need
        THEN IF s1.activeWatcher THEN s1
             ELSE watch(ensureScene(s1))
        ELSE IF s1.needSceneLast = "true"
             THEN scheduleSceneDestroy(s1, SCENE_DESTROY_DELAY)
             ELSE s1

(* createScene without the early return for a watcher that is already held *)
createSceneNoEarlyReturn(s, index) ==
    LET need == evaluateSceneLifecycle(index, s.slides)
        s1 == [s EXCEPT !.needSceneLast = s.needScene,
                        !.needScene = Bool(need),
                        !.did.evaluated = index]
    IN  IF need
        THEN watch(removeWatcher(ensureScene(s1)))
        ELSE LET s2 == IF s1.needSceneLast = "true"
                       THEN scheduleSceneDestroy(s1, SCENE_DESTROY_DELAY)
                       ELSE s1
             IN  removeWatcher(s2)

createScene(s, index) ==
    LET need == evaluateSceneLifecycle(index, s.slides)
        s1 == [s EXCEPT !.needSceneLast = s.needScene,
                        !.needScene = Bool(need),
                        !.did.evaluated = index]
    IN  IF need
        THEN IF s1.activeWatcher THEN s1
             ELSE watch(removeWatcher(ensureScene(s1)))
        ELSE LET s2 == IF s1.needSceneLast = "true"
                       THEN scheduleSceneDestroy(s1, SCENE_DESTROY_DELAY)
                       ELSE s1
             IN  removeWatcher(s2)

(* a watcher callback that restarts the throttle window on a change it
   does not sync *)
watcherCallbackRestartsWindow(s) ==
    IF ~s.isSyncing /\ s.sceneView # 0 /\ s.sinceLastSync > SYNC_THROTTLE_MS
    THEN syncViews([s EXCEPT !.sinceLastSync = 0], 0, 1)
    ELSE [s EXCEPT !.sinceLastSync = 0]

(* the callback of reactiveUtils.watch(() => mapView.viewpoint, ...) *)
watcherCallback(s) ==
    IF ~s.isSyncing /\ s.sceneView # 0 /\ s.sinceLastSync > SYNC_THROTTLE_MS
    THEN syncViews([s EXCEPT !.sinceLastSync = 0], 0, 1)
    ELSE s
----------------------------------------------------------------------------
(* map/animateOnSlide.js: the discrete time-control handler.
   play() takes a ready widget to "playing", stop() takes it to "ready". *)

toggleTimeSlider(s, slideData, ts, embedded) ==
    IF /\ slideData.timeSlider # NoTS
       /\ slideData.timeSlider.timeSliderStart # 0
       /\ slideData.timeSlider.timeSliderEnd # 0
    THEN LET w == s.sliders[ts]
             w1 == [w EXCEPT !.fullStart = slideData.timeSlider.timeSliderStart,
                             !.fullEnd = slideData.timeSlider.timeSliderEnd,
                             !.extentEnd = slideData.timeSlider.timeSliderStart,
                             !.stopsValue = slideData.timeSlider.timeSliderStep,
                             !.stopsUnit = slideData.timeSlider.timeSliderUnit]
             w2 == IF w1.state = "ready" /\ ~embedded
                   THEN [w1 EXCEPT !.state = "playing"]
                   ELSE IF w1.state = "ready" /\ embedded
                        THEN [w1 EXCEPT !.state = "ready"]
                        ELSE w1
         IN  [s EXCEPT !.sliders[ts] = w2,
                       !.did.timeSet = @ + 1,
                       !.did.played = @ + (IF w1.state = "ready" /\ ~embedded THEN 1 ELSE 0),
                       !.did.stopped = @ + (IF w1.state = "ready" /\ embedded THEN 1 ELSE 0)]
    ELSE s

(* A handler that ends by an exception: nothing after the throwing statement
   has run *)
Raise(s) == [s EXCEPT !.did.raised = TRUE]

(* animationConfig.mapFit is "extent".  With a camera and a live view the
   camera is the target; otherwise the viewpoint's targetGeometry is, and
   building the Extent from a missing geometry, or calling goTo on a null
   view, throws inside the handler's own try/catch. *)
toggleViewpoint(s, slideData, view) ==
    IF ViewOf(s, view)
       /\ (slideData.viewpoint.camera \/ slideData.viewpoint.targetGeometry)
    THEN goTo(s, view, "discrete")
    ELSE s

(* view.map.layers throws on a null view *)
toggleLayerVisibility(s, slideData, view) ==
    IF ~ViewOf(s, view) THEN Raise(s)
    ELSE LET layersOn == slideData.layerVisibility.layersOn
             layersOff == slideData.layerVisibility.layersOff
         IN  [s EXCEPT !.layerVisible[view] =
                 [t \in LayerTitles |->
                     IF t \in layersOff THEN FALSE
                     ELSE IF t \in layersOn THEN TRUE
                     ELSE @[t]]]

(* Collection operations on a 1-based sequence: remove the k-th item; add
   an item so that it becomes the k-th *)
RemoveAt(seq, k) == SubSeq(seq, 1, k - 1) \o SubSeq(seq, k + 1, Len(seq))

InsertAt(seq, k, x) == SubSeq(seq, 1, k - 1) \o <<x>> \o SubSeq(seq, k, Len(seq))

(* mapLayers.find(layer => layer.title === name): position of the first
   layer with that title, 0 when there is none *)
FindLayer(layers, name) ==
    IF \E k \in 1 .. Len(layers) : layers[k].title = name
    THEN CHOOSE k \in 1 .. Len(layers) :
            /\ layers[k].title = name
            /\ \A j \in 1 .. (k - 1) : layers[j].title # name
    ELSE 0

(* position of the layer object on the map, 0 when it is not on the map *)
FindObject(layers, object) ==
    IF \E k \in 1 .. Len(layers) : layers[k].object = object
    THEN CHOOSE k \in 1 .. Len(layers) : layers[k].object = object
    ELSE 0

(* trackLayer.clone() is a new object: the least identity that no layer on a
   map and no pending continuation holds *)
FreshObject(s) ==
    LET onMap(c) == {s.layerList[c][k].object : k \in 1 .. Len(s.layerList[c])}
        used == UNION {onMap(c) : c \in Surfaces}
                \cup {s.trackWaits[n].object : n \in 1 .. Len(s.trackWaits)}
    IN  CHOOSE o \in 1 .. (Cardinality(used) + 1) : o \notin used

(* the continuation after "await trackLayer.when()" that writes to the layer
   found on the map by title instead of to its own clone *)
trackLayerLoadedByTitle(s, n) ==
    LET w == s.trackWaits[n]
        k == FindLayer(s.layerList[w.view], w.title)
        rest == [s EXCEPT !.trackWaits = RemoveAt(@, n)]
    IN  IF k = 0 THEN rest
        ELSE [rest EXCEPT !.layerList[w.view][k].config = w.config,
                          !.layerVisible[w.view][w.title] = TRUE]

(* the continuation after "await trackLayer.when()" of the n-th pending
   wait: trackLayer.visible = true, timeInfo and trackInfo are written to
   the clone this invocation made, which is seen on the map only while that
   clone is still in the collection *)
trackLayerLoaded(s, n) ==
    LET w == s.trackWaits[n]
        k == FindObject(s.layerList[w.view], w.object)
        rest == [s EXCEPT !.trackWaits = RemoveAt(@, n)]
    IN  IF k = 0 THEN rest
        ELSE [rest EXCEPT !.layerList[w.view][k].config = w.config,
                          !.layerVisible[w.view][w.title] = TRUE]

(* view.map.layers throws on a null view; reading the unit of a missing
   timeSlider block throws inside applyTrackRenderer's try/catch, before the
   layer is looked up.  Up to "await trackLayer.when()" the layer is removed
   and its clone added at the same index; the rest runs when the clone has
   loaded. *)
toggleTrackRenderer(s, slideData, view) ==
    IF ~ViewOf(s, view) THEN Raise(s)
    ELSE IF slideData.timeSlider = NoTS THEN s
    ELSE LET trackRenderer == slideData.trackRenderer
             layers == s.layerList[view]
             layerIndex == FindLayer(layers, trackRenderer.trackLayerName)
             clone == [layers[layerIndex] EXCEPT !.object = FreshObject(s)]
         IN  IF layerIndex = 0 THEN s
             ELSE [s EXCEPT
                    !.layerList[view] =
                        InsertAt(RemoveAt(layers, layerIndex), layerIndex, clone),
                    !.trackWaits = Append(@,
                        [view |-> view, object |-> clone.object,
                         title |-> clone.title,
                         config |-> TrackConfig(
                            slideData.timeSlider.timeSliderUnit,
                            slideData.timeSlider.timeSliderStep,
                            trackRenderer.trackInfo)]),
                    !.did.trackReset = @ + 1]

(* Object.assign({}, currentEnv, env): env.lighting and env.weather are
   objects built from the slide's block alone *)
toggleEnvironment(s, slideData, view) ==
    LET slideEnv == slideData.environment
        currentEnv == s.environment[view]
        l == slideEnv.lighting
        w == slideEnv.weather
        hasLighting == l.present /\ (l.type # "undefined" \/ l.datetime # Undef
                                        \/ l.displayUTCOffset # Undef)
        hasWeather == w.present /\ (w.type # "undefined" \/ w.cloudCover # Undef
                                       \/ w.precipitation # Undef)
        newEnv ==
            [defined |-> TRUE,
             lighting |-> IF hasLighting
                          THEN LightingObject(l.type, Undef, l.datetime,
                                              l.displayUTCOffset)
                          ELSE currentEnv.lighting,
             weather |-> IF hasWeather
                         THEN WeatherObject(w.type, w.cloudCover, w.precipitation)
                         ELSE currentEnv.weather,
             atmosphereEnabled |-> IF slideEnv.atmosphereEnabled # "undefined"
                                   THEN slideEnv.atmosphereEnabled
                                   ELSE currentEnv.atmosphereEnabled,
             starsEnabled |-> IF slideEnv.starsEnabled # "undefined"
                              THEN slideEnv.starsEnabled
                              ELSE currentEnv.starsEnabled]
    IN  IF ~slideEnv.present THEN s
        ELSE IF ~ViewOf(s, view) \/ ~currentEnv.defined THEN s
        ELSE [s EXCEPT !.environment[view] = newEnv]

(* choreographyHandlers of animateOnSlide.js *)
DiscreteKeys == {"viewpoint", "timeSlider", "layerVisibility", "trackRenderer",
                 "environment"}

NON_EMBED_EXCLUDE_KEYS == {"viewpoint"}

discreteHandler(key, s, slideData, view, ts, embedded) ==
    CASE key = "viewpoint" -> toggleViewpoint(s, slideData, view)
      [] key = "timeSlider" -> toggleTimeSlider(s, slideData, ts, embedded)
      [] key = "layerVisibility" -> toggleLayerVisibility(s, slideData, view)
      [] key = "trackRenderer" -> toggleTrackRenderer(s, slideData, view)
      [] key = "environment" -> toggleEnvironment(s, slideData, view)

(* try { handler(context) } catch (error) { console.error(...) }; without
   the try (catching = FALSE) the exception ends the loop and the caller *)
Settle(h, catching) ==
    IF ~h.did.raised THEN h
    ELSE IF catching
         THEN [h EXCEPT !.did.raised = FALSE, !.did.caught = @ + 1]
         ELSE [h EXCEPT !.did.raised = FALSE, !.did.threw = TRUE]

(* Object.entries(slideData).forEach from the k-th key on *)
RECURSIVE slideAnimationFrom(_, _, _, _, _, _, _, _)
slideAnimationFrom(s, slideData, view, ts, embedded, k, excluded, catching) ==
    IF k > Len(slideData.keys) \/ s.did.threw THEN s
    ELSE LET key == slideData.keys[k]
         IN  IF key \notin DiscreteKeys \/ (embedded /\ key \in excluded)
             THEN slideAnimationFrom(s, slideData, view, ts, embedded, k + 1,
                                     excluded, catching)
             ELSE LET h == discreteHandler(key,
                               [s EXCEPT !.did.invoked = Append(@, key)],
                               slideData, view, ts, embedded)
                  IN  slideAnimationFrom(Settle(h, catching), slideData, view,
                                         ts, embedded, k + 1, excluded, catching)

(* slideAnimation with the handler called outside a try/catch *)
slideAnimationNoCatch(s, slideData, view, ts, embedded) ==
    slideAnimationFrom([s EXCEPT !.did.discrete = @ + 1], slideData, view, ts,
                       embedded, 1, NON_EMBED_EXCLUDE_KEYS, FALSE)

(* slideAnimation that excludes no key when embedded *)
slideAnimationNoExclusion(s, slideData, view, ts, embedded) ==
    slideAnimationFrom([s EXCEPT !.did.discrete = @ + 1], slideData, view, ts,
                       embedded, 1, {}, TRUE)

slideAnimation(s, slideData, view, ts, embedded) ==
    slideAnimationFrom([s EXCEPT !.did.discrete = @ + 1], slideData, view, ts,
                       embedded, 1, NON_EMBED_EXCLUDE_KEYS, TRUE)

----------------------------------------------------------------------------
(* map/animateOnScroll.js: the continuous time-control handler *)

unitToMs(unit) ==
    CASE unit = "milliseconds" -> 1
      [] unit = "seconds" -> 1000
      [] unit = "minutes" -> 60 * 1000
      [] unit = "hours" -> 60 * 60 * 1000
      [] unit = "days" -> 24 * 60 * 60 * 1000
      [] unit = "weeks" -> 7 * 24 * 60 * 60 * 1000
      [] unit = "months" -> 30 * 24 * 60 * 60 * 1000
      [] unit = "years" -> 365 * 24 * 60 * 60 * 1000
      [] OTHER -> 0

(* the snap done with Math.floor instead of Math.ceil *)
ClampedTimeFloor(start, end, stepMs, progress) ==
    LET snappedOffset == (((end - start) * progress) \div (100 * stepMs)) * stepMs
        snappedTime == start + snappedOffset
    IN  Min(Max(snappedTime, start), end)

(* the time put in timeExtent.end when stepMs > 0; progress in percent *)
ClampedTime(start, end, stepMs, progress) ==
    LET snappedOffset == CeilDiv((end - start) * progress, 100 * stepMs) * stepMs
        snappedTime == start + snappedOffset
    IN  Min(Max(snappedTime, start), end)

interpolateTimeSlider(s, slideCurrent, progress, ts) ==
    LET slideTimeData == slideCurrent.timeSlider
        start == slideTimeData.timeSliderStart
        end == slideTimeData.timeSliderEnd
        stepMs == slideTimeData.timeSliderStep * unitToMs(slideTimeData.timeSliderUnit)
    IN  IF stepMs <= 0 THEN s
        ELSE [s EXCEPT !.sliders[ts].extentEnd = ClampedTime(start, end, stepMs, progress),
                       !.sliders[ts].state = "ready",
                       !.did.timeSet = @ + 1,
                       !.did.stopped = @ + 1]

(* interpolate = fromVal + (toVal - fromVal) * progress, progress in percent;
   new Date(x) drops the fraction of a millisecond *)
interpolate(fromVal, toVal, progress) ==
    fromVal + ((toVal - fromVal) * progress) \div 100

(* JavaScript numbers are binary floating point: every arithmetic result is
   rounded to the nearest representable number, ties to the even
   significand.  The model keeps FloatBits significand bits (the source has
   53) over a grid of integers, so the representable numbers are m * 2^e with
   0 <= m < 2^FloatBits. *)
FloatBits == 3

FloatExps == 0 .. 4

Representable ==
    LET mags == {m * 2^e : m \in 0 .. (2^FloatBits - 1), e \in FloatExps}
    IN  mags \cup {0 - f : f \in mags}

(* n/d (d > 0) rounded to the nearest representable number *)
RoundQ(n, d) ==
    LET lo == CHOOSE f \in Representable :
                  /\ f * d <= n
                  /\ \A g \in Representable : g * d <= n => g <= f
        hi == CHOOSE f \in Representable :
                  /\ f * d >= n
                  /\ \A g \in Representable : g * d >= n => g >= f
    IN  IF lo = hi THEN lo
        ELSE IF n - lo * d < hi * d - n THEN lo
        ELSE IF n - lo * d > hi * d - n THEN hi
        ELSE IF (lo \div (hi - lo)) % 2 = 0 THEN lo ELSE hi

Round(x) == RoundQ(x, 1)

(* (a === undefined || b === undefined) ? (a ?? b) : a + (b - a) * t;
   t in percent *)
lerp(a, b, t) ==
    IF a = Undef \/ b = Undef
    THEN (IF a # Undef THEN a ELSE b)
    ELSE Round(a + RoundQ(Round(b - a) * t, 100))

(* Reading .camera of the next slide's missing viewpoint throws.  On the
   live 3D view a next viewpoint with a targetGeometry is interpolated from
   the current viewpoint (derived from the camera when it has no geometry);
   otherwise two cameras are interpolated; otherwise the two 2D viewpoints
   are, and goTo on a null view throws. *)
interpolateViewpoint(s, slideCurrent, slideNext, progress, view) ==
    LET currentViewpoint == slideCurrent.viewpoint
        nextViewpoint == slideNext.viewpoint
        is3DView == ViewOf(s, view) /\ view = 1
        has2D == /\ currentViewpoint.present /\ currentViewpoint.targetGeometry
                 /\ nextViewpoint.present /\ nextViewpoint.targetGeometry
        \* deriveViewpointFromCamera: rotation: camera.heading || 0
        derivedRotation ==
            IF currentViewpoint.targetGeometry THEN currentViewpoint.rotation
            ELSE IF currentViewpoint.heading = Undef THEN 0
            ELSE currentViewpoint.heading
    IN  IF slideNext.defined /\ ~nextViewpoint.present THEN Raise(s)
        ELSE IF is3DView /\ nextViewpoint.present /\ nextViewpoint.targetGeometry
                /\ (currentViewpoint.targetGeometry \/ currentViewpoint.camera)
        THEN [goTo(s, view, "continuous") EXCEPT !.lastRotation[view] =
                lerp(derivedRotation, nextViewpoint.rotation, progress)]
        ELSE IF is3DView /\ currentViewpoint.camera /\ nextViewpoint.camera
        THEN goTo(s, view, "continuous")
        ELSE IF ~has2D THEN s
        ELSE IF ~ViewOf(s, view) THEN Raise(s)
        ELSE [goTo(s, view, "continuous") EXCEPT !.lastRotation[view] =
                lerp(currentViewpoint.rotation, nextViewpoint.rotation, progress)]

(* interpolateEnvironment that takes the two types from the current slide *)
interpolateEnvironmentKeepsTypes(s, slideCurrent, slideNext, progress, view) ==
    LET currentEnv == slideCurrent.environment
        nextEnv == slideNext.environment
        bothNumbers(a, b) == a # Undef /\ b # Undef
        date == IF bothNumbers(currentEnv.lighting.datetime, nextEnv.lighting.datetime)
                THEN interpolate(currentEnv.lighting.datetime,
                                 nextEnv.lighting.datetime, progress)
                ELSE NaN
        cloudCover ==
            IF bothNumbers(currentEnv.weather.cloudCover, nextEnv.weather.cloudCover)
            THEN interpolate(currentEnv.weather.cloudCover,
                             nextEnv.weather.cloudCover, progress)
            ELSE currentEnv.weather.cloudCover
        precipitation ==
            IF bothNumbers(currentEnv.weather.precipitation,
                           nextEnv.weather.precipitation)
            THEN interpolate(currentEnv.weather.precipitation,
                             nextEnv.weather.precipitation, progress)
            ELSE currentEnv.weather.precipitation
    IN  IF ~currentEnv.present \/ ~nextEnv.present THEN s
        ELSE IF ~currentEnv.lighting.present \/ ~nextEnv.lighting.present
                \/ ~currentEnv.weather.present \/ ~nextEnv.weather.present
                \/ ~ViewOf(s, view)
        THEN Raise(s)
        ELSE [s EXCEPT !.environment[view] =
                EnvObject(LightingObject(currentEnv.lighting.type, date, Undef,
                                         nextEnv.lighting.displayUTCOffset),
                          WeatherObject(currentEnv.weather.type, cloudCover,
                                        precipitation),
                          currentEnv.atmosphereEnabled, currentEnv.starsEnabled)]

(* Reading a property of a missing lighting or weather block throws, and so
   does assigning view.environment on a null view.  A missing datetime makes
   an invalid Date (NaN).  The object assigned has no datetime property. *)
interpolateEnvironment(s, slideCurrent, slideNext, progress, view) ==
    LET currentEnv == slideCurrent.environment
        nextEnv == slideNext.environment
        bothNumbers(a, b) == a # Undef /\ b # Undef
        date == IF bothNumbers(currentEnv.lighting.datetime, nextEnv.lighting.datetime)
                THEN interpolate(currentEnv.lighting.datetime,
                                 nextEnv.lighting.datetime, progress)
                ELSE NaN
        cloudCover ==
            IF bothNumbers(currentEnv.weather.cloudCover, nextEnv.weather.cloudCover)
            THEN interpolate(currentEnv.weather.cloudCover,
                             nextEnv.weather.cloudCover, progress)
            ELSE currentEnv.weather.cloudCover
        precipitation ==
            IF bothNumbers(currentEnv.weather.precipitation,
                           nextEnv.weather.precipitation)
            THEN interpolate(currentEnv.weather.precipitation,
                             nextEnv.weather.precipitation, progress)
            ELSE currentEnv.weather.precipitation
    IN  IF ~currentEnv.present \/ ~nextEnv.present THEN s
        ELSE IF ~currentEnv.lighting.present \/ ~nextEnv.lighting.present
                \/ ~currentEnv.weather.present \/ ~nextEnv.weather.present
                \/ ~ViewOf(s, view)
        THEN Raise(s)
        ELSE [s EXCEPT !.environment[view] =
                EnvObject(LightingObject(nextEnv.lighting.type, date, Undef,
                                         nextEnv.lighting.displayUTCOffset),
                          WeatherObject(nextEnv.weather.type, cloudCover,
                                        precipitation),
                          currentEnv.atmosphereEnabled, currentEnv.starsEnabled)]

(* choreographyHandlers of animateOnScroll.js *)
ContinuousKeys == {"viewpoint", "timeSlider", "environment"}

continuousHandler(key, s, slideCurrent, slideNext, progress, view, ts) ==
    CASE key = "viewpoint" ->
             interpolateViewpoint(s, slideCurrent, slideNext, progress, view)
      [] key = "timeSlider" ->
             interpolateTimeSlider(s, slideCurrent, progress, ts)
      [] key = "environment" ->
             interpolateEnvironment(s, slideCurrent, slideNext, progress, view)

(* Object.keys(slideCurrent).filter(...).forEach from the k-th key on *)
RECURSIVE scrollAnimationFrom(_, _, _, _, _, _, _)
scrollAnimationFrom(s, slideCurrent, slideNext, progress, view, ts, k) ==
    IF k > Len(slideCurrent.keys) THEN s
    ELSE LET key == slideCurrent.keys[k]
         IN  IF key \notin ContinuousKeys
             THEN scrollAnimationFrom(s, slideCurrent, slideNext, progress, view,
                                      ts, k + 1)
             ELSE LET h == continuousHandler(key,
                               [s EXCEPT !.did.invoked = Append(@, key)],
                               slideCurrent, slideNext, progress, view, ts)
                  IN  scrollAnimationFrom(Settle(h, TRUE), slideCurrent,
                                          slideNext, progress, view, ts, k + 1)

scrollAnimation(s, slideCurrent, slideNext, progress, view, ts) ==
    scrollAnimationFrom([s EXCEPT !.did.continuous = @ + 1], slideCurrent,
                        slideNext, progress, view, ts, 1)

----------------------------------------------------------------------------
(* map main module: crossfade and the navigation adapters *)

(* crossfade that uses t as given, without clamping it into [0,1] *)
crossfadeNoClamp(s, fromMapIndex, toMapIndex, t0) ==
    LET t == t0
        a == IF toMapIndex = 1 /\ t > 0
             THEN [ensureScene(s) EXCEPT !.hidden[toMapIndex] = FALSE]
             ELSE s
        b == IF fromMapIndex = 1 /\ t < 100
             THEN [ensureScene(a) EXCEPT !.hidden[fromMapIndex] = FALSE]
             ELSE a
        c == IF t < 20 THEN [b EXCEPT !.hidden[toMapIndex] = TRUE]
             ELSE IF t > 80 THEN [b EXCEPT !.hidden[fromMapIndex] = TRUE]
             ELSE b
        d == [[c EXCEPT !.opacity[fromMapIndex] = 100 - t]
                 EXCEPT !.opacity[toMapIndex] = t]
        e == [[d EXCEPT !.pointerEvents[fromMapIndex] =
                            IF t < 50 THEN "auto" ELSE "none"]
                 EXCEPT !.pointerEvents[toMapIndex] =
                            IF t > 50 THEN "auto" ELSE "none"]
    IN  IF ViewOf(e, fromMapIndex) /\ ViewOf(e, toMapIndex) /\ t > 0 /\ t < 100
        THEN syncViews(e, fromMapIndex, toMapIndex)
        ELSE e

(* crossfade that ensures the scene for the 'to' surface only *)
crossfadeEnsuresToOnly(s, fromMapIndex, toMapIndex, t0) ==
    LET t == Max(0, Min(100, t0))
        a == IF toMapIndex = 1 /\ t > 0
             THEN [ensureScene(s) EXCEPT !.hidden[toMapIndex] = FALSE]
             ELSE s
        b == IF fromMapIndex = 1 /\ t < 100
             THEN [a EXCEPT !.hidden[fromMapIndex] = FALSE]
             ELSE a
        c == IF t < 20 THEN [b EXCEPT !.hidden[toMapIndex] = TRUE]
             ELSE IF t > 80 THEN [b EXCEPT !.hidden[fromMapIndex] = TRUE]
             ELSE b
        d == [[c EXCEPT !.opacity[fromMapIndex] = 100 - t]
                 EXCEPT !.opacity[toMapIndex] = t]
        e == [[d EXCEPT !.pointerEvents[fromMapIndex] =
                            IF t < 50 THEN "auto" ELSE "none"]
                 EXCEPT !.pointerEvents[toMapIndex] =
                            IF t > 50 THEN "auto" ELSE "none"]
    IN  IF ViewOf(e, fromMapIndex) /\ ViewOf(e, toMapIndex) /\ t > 0 /\ t < 100
        THEN syncViews(e, fromMapIndex, toMapIndex)
        ELSE e

crossfade(s, fromMapIndex, toMapIndex, t0) ==
    LET t == Max(0, Min(100, t0))
        a == IF toMapIndex = 1 /\ t > 0
             THEN [ensureScene(s) EXCEPT !.hidden[toMapIndex] = FALSE]
             ELSE s
        b == IF fromMapIndex = 1 /\ t < 100
             THEN [ensureScene(a) EXCEPT !.hidden[fromMapIndex] = FALSE]
             ELSE a
        c == IF t < 20 THEN [b EXCEPT !.hidden[toMapIndex] = TRUE]
             ELSE IF t > 80 THEN [b EXCEPT !.hidden[fromMapIndex] = TRUE]
             ELSE b
        d == [[c EXCEPT !.opacity[fromMapIndex] = 100 - t]
                 EXCEPT !.opacity[toMapIndex] = t]
        e == [[d EXCEPT !.pointerEvents[fromMapIndex] =
                            IF t < 50 THEN "auto" ELSE "none"]
                 EXCEPT !.pointerEvents[toMapIndex] =
                            IF t > 50 THEN "auto" ELSE "none"]
    IN  IF ViewOf(e, fromMapIndex) /\ ViewOf(e, toMapIndex) /\ t > 0 /\ t < 100
        THEN syncViews(e, fromMapIndex, toMapIndex)
        ELSE e

(* slides[i].maps && slides[i].maps.length > 1 *)
IsCrossfadeSlide(sl, i) == Len(At(sl, i).maps) > 1

(* reading slides[hashIndexLast].maps throws when hashIndexLast is neither
   null nor an index of the choreography *)
updateCrossfadeThrows(s) ==
    s.hashIndexLast # Null /\ ~InRange(s.slides, s.hashIndexLast)

updateCrossfadeForSlide(s, index) ==
    LET isCrossfade == IsCrossfadeSlide(s.slides, index)
        wasCrossfade == s.hashIndexLast # Null
                        /\ IsCrossfadeSlide(s.slides, s.hashIndexLast)
        m == At(s.slides, index).maps
    IN  IF isCrossfade # wasCrossfade
        THEN crossfade(s, IF isCrossfade THEN m[1] ELSE 0,
                          IF isCrossfade THEN m[2] ELSE 1,
                          IF isCrossfade THEN 100 ELSE (IF m[1] = 1 THEN 100 ELSE 0))
        ELSE s

(* the selection that falls back to the primary view and its time slider
   while the scene view is null *)
activeForPrimaryWhenNull(s, currentSlide) ==
    IF currentSlide.maps # NoMaps /\ currentSlide.maps[1] = 1 /\ s.sceneView # 0
    THEN [s |-> s, view |-> 1, ts |-> 1]
    ELSE [s |-> s, view |-> 0, ts |-> 0]

(* the view and time slider a slide is applied to: [s, view, ts] *)
activeFor(s, currentSlide) ==
    IF currentSlide.maps # NoMaps /\ currentSlide.maps[1] = 1
    THEN LET e == IF s.sceneView = 0 THEN ensureScene(s) ELSE s
         IN  [s |-> e, view |-> 1, ts |-> IF e.sceneElement # 0 THEN 1 ELSE 0]
    ELSE [s |-> s, view |-> 0, ts |-> 0]

hashListener(s0, h) ==
    LET s == [s0 EXCEPT !.hashIndexLast = s0.hashIndex,
                      !.hashIndex = h]
    IN  IF h = NaN \/ ~InRange(s.slides, h) THEN s
        ELSE LET currentSlide == At(s.slides, h)
                 act == activeFor(s, currentSlide)
                 a == slideAnimation(act.s, currentSlide, act.view, act.ts, s.isEmbedded)
                 b == IF Len(currentSlide.maps) > 1 /\ ViewOf(a, currentSlide.maps[2])
                      THEN slideAnimation(a, currentSlide, currentSlide.maps[2],
                                          act.ts, s.isEmbedded)
                      ELSE a
             IN  IF updateCrossfadeThrows(b)
                 THEN [b EXCEPT !.did.threw = TRUE]
                 ELSE createScene(updateCrossfadeForSlide(b, h), h)

(* the message handler without "hashIndexLast = payload.slide" *)
messageListenerForgetsSlide(s0, embedded, slide, progress) ==
    LET s == [s0 EXCEPT !.isEmbedded = embedded]
        currentSlide == At(s.slides, slide)
        act == activeFor(s, currentSlide)
        nextSlide == AtOrUndefined(s.slides, slide + 1)
        a == scrollAnimation(act.s, currentSlide, nextSlide, progress, act.view,
                             act.ts)
        b == IF Len(currentSlide.maps) > 1
             THEN crossfade(a, currentSlide.maps[1], currentSlide.maps[2], progress)
             ELSE a
    IN  IF slide # b.hashIndexLast
        THEN slideAnimation(b, currentSlide, act.view, act.ts, embedded)
        ELSE b

messageListener(s0, embedded, slide, progress) ==
    LET s == [s0 EXCEPT !.isEmbedded = embedded]
        currentSlide == At(s.slides, slide)
        act == activeFor(s, currentSlide)
        nextSlide == AtOrUndefined(s.slides, slide + 1)
        a == scrollAnimation(act.s, currentSlide, nextSlide, progress, act.view,
                             act.ts)
        b == IF Len(currentSlide.maps) > 1
             THEN crossfade(a, currentSlide.maps[1], currentSlide.maps[2], progress)
             ELSE a
    IN  IF slide # b.hashIndexLast
        THEN slideAnimation([b EXCEPT !.hashIndexLast = slide], currentSlide,
                            act.view, act.ts, embedded)
        ELSE b
----------------------------------------------------------------------------
(* Events *)

(* payload.progress of the controller's messages *)
ProgressValues == {0, 50, 100}

(* parseInt(location.hash): every index, one past the end, not a number *)
HashValues(sl) == (0 .. Len(sl)) \cup {NaN}

Init ==
    /\ sceneElement = 0
    /\ sceneView = 0
    /\ activeWatcher = FALSE
    /\ needSceneLast = "null"
    /\ needScene = "null"
    /\ sinceLastSync = MaxSinceSync
    /\ sceneDestroyTimer = NoTimer
    /\ isSyncing = FALSE
    /\ releaseTimers = <<>>
    /\ sceneDom = {}
    /\ sceneGen = 2
    /\ readyPending = FALSE
    /\ hidden = [c \in Surfaces |-> c = 1]
    /\ opacity = [c \in Surfaces |-> 100]
    /\ pointerEvents = [c \in Surfaces |-> "unset"]
    /\ sliders = [c \in Surfaces |-> NewSlider]
    /\ environment = NewEnvironment
    /\ layerVisible = [c \in Surfaces |-> NewLayers]
    /\ pendingNav = [c \in Surfaces |-> "none"]
    /\ lastRotation = [c \in Surfaces |-> Undef]
    /\ watchers = 0
    /\ viewScale = [c \in Surfaces |-> InitialScale]
    /\ latitude = [c \in Surfaces |-> InitialLatitude]
    /\ layerList = [c \in Surfaces |-> NewLayerList]
    /\ trackWaits = <<>>
    /\ slides = <<>>
    /\ mapView = FALSE
    /\ isEmbedded = FALSE
    /\ hashIndexLast = Null
    /\ hashIndex = Null

(* initMapAnimator resumes after the fetch: slides are set and the hash and
   message listeners are installed *)
ChoreographyLoaded ==
    /\ slides = <<>>
    /\ \E c \in Choreographies : Becomes([Cur EXCEPT !.slides = c])

(* arcgisViewReadyChange of the primary element (taken to be raised once):
   slideAnimation(slides[0], ...) throws while the choreography is not loaded *)
mapViewReadyListener(s0) ==
    LET s == [s0 EXCEPT !.mapView = TRUE]
    IN  IF s.slides = <<>>
        THEN [s EXCEPT !.did.threw = TRUE]
        ELSE slideAnimation(s, At(s.slides, 0), 0, 0, s.isEmbedded)

MapViewReady ==
    /\ ~mapView
    /\ Becomes(mapViewReadyListener(Cur))

HashChange ==
    /\ slides # <<>>
    /\ \E h \in HashValues(slides) : Becomes(hashListener(Cur, h))

Message ==
    /\ slides # <<>>
    /\ \E embedded \in BOOLEAN, slide \in 0 .. (Len(slides) - 1),
          progress \in ProgressValues :
            Becomes(messageListener(Cur, embedded, slide, progress))

(* arcgisViewReadyChange of the scene element: sceneView = sceneElement.view.
   The listener is registered once per created element; an element removed
   by destroyScene before it became ready raises no event. *)
SceneReady ==
    /\ readyPending
    /\ sceneElement # 0
    /\ Becomes([Cur EXCEPT !.sceneView = sceneElement,
                                               !.readyPending = FALSE])

DestroyTimerFires ==
    /\ sceneDestroyTimer = 0
    /\ Becomes(destroyTimerCallback(Cur))

ReleaseTimerFires ==
    /\ releaseTimers # <<>>
    /\ Head(releaseTimers) = 0
    /\ Becomes([Cur EXCEPT !.isSyncing = FALSE,
                                                 !.releaseTimers = Tail(@)])

(* the primary view's viewpoint changed while a watcher is installed *)
ViewpointChanged ==
    /\ activeWatcher
    /\ mapView
    /\ Becomes(watcherCallback(Cur))

(* the promise of a pending goTo resolves *)
NavigationSettles ==
    \E c \in Surfaces :
        /\ pendingNav[c] # "none"
        /\ Becomes([Cur EXCEPT !.pendingNav[c] = "none"])

Tick ==
    \E d \in TickSteps :
        /\ sceneDestroyTimer = NoTimer \/ sceneDestroyTimer >= d
        /\ \A k \in 1 .. Len(releaseTimers) : releaseTimers[k] >= d
        /\ Becomes([Cur EXCEPT
                !.sceneDestroyTimer = IF @ = NoTimer THEN @ ELSE @ - d,
                !.releaseTimers = [k \in 1 .. Len(@) |-> @[k] - d],
                !.sinceLastSync = Min(MaxSinceSync, @ + d)])

Next ==
    \/ ChoreographyLoaded
    \/ MapViewReady
    \/ HashChange
    \/ Message
    \/ SceneReady
    \/ DestroyTimerFires
    \/ ReleaseTimerFires
    \/ ViewpointChanged
    \/ NavigationSettles
    \/ Tick

Spec == Init /\ [][Next]_vars
----------------------------------------------------------------------------
(* Direct calls of the exported crossfade(from, to, t), with t also outside
   [0,1], and of the exported createScene(index, ...), also with indices
   outside the choreography, after the choreography has loaded *)

TValues == {0 - 10, 0, 10, 20, 50, 80, 90, 100, 110}

FadePairs == {<<0, 1>>, <<1, 0>>}

InitCalls ==
    /\ sceneElement = 0
    /\ sceneView = 0
    /\ activeWatcher = FALSE
    /\ needSceneLast = "null"
    /\ needScene = "null"
    /\ sinceLastSync = MaxSinceSync
    /\ sceneDestroyTimer = NoTimer
    /\ isSyncing = FALSE
    /\ releaseTimers = <<>>
    /\ sceneDom = {}
    /\ sceneGen = 2
    /\ readyPending = FALSE
    /\ hidden = [c \in Surfaces |-> c = 1]
    /\ opacity = [c \in Surfaces |-> 100]
    /\ pointerEvents = [c \in Surfaces |-> "unset"]
    /\ sliders = [c \in Surfaces |-> NewSlider]
    /\ environment = NewEnvironment
    /\ layerVisible = [c \in Surfaces |-> NewLayers]
    /\ pendingNav = [c \in Surfaces |-> "none"]
    /\ lastRotation = [c \in Surfaces |-> Undef]
    /\ watchers = 0
    /\ viewScale = [c \in Surfaces |-> InitialScale]
    /\ latitude = [c \in Surfaces |-> InitialLatitude]
    /\ layerList = [c \in Surfaces |-> NewLayerList]
    /\ trackWaits = <<>>
    /\ slides = ChorScene
    /\ mapView = FALSE
    /\ isEmbedded = FALSE
    /\ hashIndexLast = Null
    /\ hashIndex = Null

CrossfadeCall ==
    \E pr \in FadePairs, t \in TValues : Becomes(crossfade(Cur, pr[1], pr[2], t))

EvalIndices(sl) == (0 - 2) .. (Len(sl) + 1)

CreateSceneCall ==
    \E index \in EvalIndices(slides) : Becomes(createScene(Cur, index))

NextCalls ==
    \/ CrossfadeCall
    \/ CreateSceneCall
    \/ MapViewReady
    \/ SceneReady
    \/ DestroyTimerFires
    \/ ReleaseTimerFires
    \/ ViewpointChanged
    \/ NavigationSettles
    \/ Tick

SpecCalls == InitCalls /\ [][NextCalls]_vars

(* The same calls with the browser's scheduling of time: time passes unless
   a timer is due, and a due timer's callback runs *)
SpecCallsFair ==
    /\ InitCalls
    /\ [][NextCalls]_vars
    /\ WF_vars(Tick)
    /\ WF_vars(ReleaseTimerFires)
    /\ WF_vars(DestroyTimerFires)

----------------------------------------------------------------------------
(* Direct calls of the exported createScene(index, slides, ...) on every
   choreography of up to MaxSlides slides *)

MaxSlides == 4

MapsChoices == {NoMaps, <<0>>, <<1>>, <<0, 1>>, <<1, 0>>}

SlideSeqs(n) == [1 .. n -> {Slide(m, NoTS) : m \in MapsChoices}]

InitEval ==
    /\ sceneElement = 0
    /\ sceneView = 0
    /\ activeWatcher = FALSE
    /\ needSceneLast = "null"
    /\ needScene = "null"
    /\ sinceLastSync = MaxSinceSync
    /\ sceneDestroyTimer = NoTimer
    /\ isSyncing = FALSE
    /\ releaseTimers = <<>>
    /\ sceneDom = {}
    /\ sceneGen = 2
    /\ readyPending = FALSE
    /\ hidden = [c \in Surfaces |-> c = 1]
    /\ opacity = [c \in Surfaces |-> 100]
    /\ pointerEvents = [c \in Surfaces |-> "unset"]
    /\ sliders = [c \in Surfaces |-> NewSlider]
    /\ environment = NewEnvironment
    /\ layerVisible = [c \in Surfaces |-> NewLayers]
    /\ pendingNav = [c \in Surfaces |-> "none"]
    /\ lastRotation = [c \in Surfaces |-> Undef]
    /\ watchers = 0
    /\ viewScale = [c \in Surfaces |-> InitialScale]
    /\ latitude = [c \in Surfaces |-> InitialLatitude]
    /\ layerList = [c \in Surfaces |-> NewLayerList]
    /\ trackWaits = <<>>
    /\ \E n \in 1 .. MaxSlides : slides \in SlideSeqs(n)
    /\ mapView = TRUE
    /\ isEmbedded = FALSE
    /\ hashIndexLast = Null
    /\ hashIndex = Null

NextEval ==
    \/ CreateSceneCall
    \/ SceneReady
    \/ DestroyTimerFires
    \/ Tick

SpecEval == InitEval /\ [][NextEval]_vars

----------------------------------------------------------------------------
(* Direct calls of the exported scrollAnimation and slideAnimation for one
   slide with a time window, over a range of windows, steps and progress
   values.  Window widths are multiples of SnapGrid. *)

MaxSpan == 4

SnapGrid == 500

SnapStarts == {1000, 1750}

SnapSteps == {<<1, "seconds">>, <<2, "seconds">>, <<250, "milliseconds">>,
              <<750, "milliseconds">>, <<1, "minutes">>}

SnapProgress == {0, 1, 10, 25, 50, 75, 99, 100}

SnapWindows ==
    {TS(st, st + n * SnapGrid, sp[1], sp[2]) :
        st \in SnapStarts, n \in 0 .. MaxSpan, sp \in SnapSteps}

InitSnap ==
    /\ sceneElement = 0
    /\ sceneView = 0
    /\ activeWatcher = FALSE
    /\ needSceneLast = "null"
    /\ needScene = "null"
    /\ sinceLastSync = MaxSinceSync
    /\ sceneDestroyTimer = NoTimer
    /\ isSyncing = FALSE
    /\ releaseTimers = <<>>
    /\ sceneDom = {}
    /\ sceneGen = 2
    /\ readyPending = FALSE
    /\ hidden = [c \in Surfaces |-> c = 1]
    /\ opacity = [c \in Surfaces |-> 100]
    /\ pointerEvents = [c \in Surfaces |-> "unset"]
    /\ sliders = [c \in Surfaces |-> NewSlider]
    /\ environment = NewEnvironment
    /\ layerVisible = [c \in Surfaces |-> NewLayers]
    /\ pendingNav = [c \in Surfaces |-> "none"]
    /\ lastRotation = [c \in Surfaces |-> Undef]
    /\ watchers = 0
    /\ viewScale = [c \in Surfaces |-> InitialScale]
    /\ latitude = [c \in Surfaces |-> InitialLatitude]
    /\ layerList = [c \in Surfaces |-> NewLayerList]
    /\ trackWaits = <<>>
    /\ \E w \in SnapWindows : slides = << Slide(<<0>>, w) >>
    /\ mapView = TRUE
    /\ isEmbedded = FALSE
    /\ hashIndexLast = Null
    /\ hashIndex = Null

ScrollCall ==
    \E p \in SnapProgress : Becomes(scrollAnimation(Cur, At(slides, 0), NoSlide, p, 0, 0))

SlideCall ==
    \E e \in BOOLEAN : Becomes(slideAnimation(Cur, At(slides, 0), 0, 0, e))

NextSnap ==
    \/ ScrollCall
    \/ SlideCall

SpecSnap == InitSnap /\ [][NextSnap]_vars

----------------------------------------------------------------------------
(* The page driven by controller messages only: no hashchange is raised *)

NextMessages ==
    \/ ChoreographyLoaded
    \/ MapViewReady
    \/ Message
    \/ SceneReady
    \/ ReleaseTimerFires
    \/ NavigationSettles
    \/ Tick

SpecMessages == Init /\ [][NextMessages]_vars

----------------------------------------------------------------------------
(* The two dispatches as the hash and message listeners call them - the view
   and the time slider chosen from the slide's maps array, the scene ensured
   when the slide's first map is the scene - on choreographies that use
   every aspect.
   ChorAspects:
   Slide 0 (2D): an unrecognized key, a viewpoint, a time window, layers.
   Slide 1 (2D): a viewpoint.
   Slide 2 (scene): layers, a camera viewpoint, an environment block with a
   lighting type only, a track renderer, a time window, an unrecognized key.
   Slide 3 (scene): an environment block with a weather type only, a camera
   viewpoint. *)

ChorAspects ==
    << [Slide(<<0>>, TS(1000, 3000, 1, "seconds")) EXCEPT
            !.viewpoint = VP(FALSE, TRUE),
            !.layerVisibility = LV({"track"}, {"dams"}),
            !.keys = <<"maps", "title", "viewpoint", "timeSlider",
                       "layerVisibility">>],
       [Slide(<<0>>, NoTS) EXCEPT
            !.viewpoint = VP(FALSE, TRUE),
            !.keys = <<"maps", "viewpoint">>],
       [Slide(<<1>>, TS(1000, 3000, 1, "seconds")) EXCEPT
            !.layerVisibility = LV({"track"}, {}),
            !.viewpoint = VP(TRUE, TRUE),
            !.environment = Env(Lighting("virtual", Undef, Undef), NoWeather,
                                "undefined", "undefined"),
            !.trackRenderer = TR("track"),
            !.keys = <<"maps", "layerVisibility", "viewpoint", "environment",
                       "trackRenderer", "timeSlider", "title">>],
       [Slide(<<1>>, NoTS) EXCEPT
            !.environment = Env(NoLighting, Weather("rainy", Undef, Undef),
                                "undefined", "undefined"),
            !.viewpoint = VP(TRUE, TRUE),
            !.keys = <<"maps", "environment", "viewpoint">>] >>

(* environment blocks: two complete ones, one without cloud cover and UTC
   offset, and three partial ones (weather type only, lighting type only,
   atmosphere only) *)
Hour == 3600000

EnvBlocks ==
    { Env(Lighting("sun", Hour, 0), Weather("sunny", 0, 0), "true", "true"),
      Env(Lighting("virtual", 2 * Hour, 60), Weather("rainy", 80, 40),
          "false", "true"),
      Env(Lighting("sun", 3 * Hour, Undef), Weather("cloudy", Undef, 20),
          "undefined", "undefined"),
      Env(NoLighting, Weather("rainy", Undef, Undef), "undefined", "undefined"),
      Env(Lighting("virtual", Undef, Undef), NoWeather, "undefined", "undefined"),
      Env(NoLighting, NoWeather, "false", "undefined") }

EnvSlide(e) ==
    [Slide(<<1>>, NoTS) EXCEPT !.environment = e,
                               !.keys = <<"maps", "environment">>]

DispatchChoreographies ==
    {ChorAspects} \cup {<<EnvSlide(a), EnvSlide(b)>> : a, b \in EnvBlocks}

DispatchProgress == {0, 25, 50, 75, 100}

MaxWaits == 2

InitDispatch ==
    /\ sceneElement = 0
    /\ sceneView = 0
    /\ activeWatcher = FALSE
    /\ needSceneLast = "null"
    /\ needScene = "null"
    /\ sinceLastSync = MaxSinceSync
    /\ sceneDestroyTimer = NoTimer
    /\ isSyncing = FALSE
    /\ releaseTimers = <<>>
    /\ sceneDom = {}
    /\ sceneGen = 2
    /\ readyPending = FALSE
    /\ hidden = [c \in Surfaces |-> c = 1]
    /\ opacity = [c \in Surfaces |-> 100]
    /\ pointerEvents = [c \in Surfaces |-> "unset"]
    /\ sliders = [c \in Surfaces |-> NewSlider]
    /\ environment = NewEnvironment
    /\ layerVisible = [c \in Surfaces |-> NewLayers]
    /\ pendingNav = [c \in Surfaces |-> "none"]
    /\ lastRotation = [c \in Surfaces |-> Undef]
    /\ watchers = 0
    /\ viewScale = [c \in Surfaces |-> InitialScale]
    /\ latitude = [c \in Surfaces |-> InitialLatitude]
    /\ layerList = [c \in Surfaces |-> NewLayerList]
    /\ trackWaits = <<>>
    /\ slides \in DispatchChoreographies
    /\ mapView = FALSE
    /\ isEmbedded = FALSE
    /\ hashIndexLast = Null
    /\ hashIndex = Null

(* the hash listener down to its first slideAnimation call *)
discreteDispatch(s, i, embedded) ==
    LET currentSlide == At(s.slides, i)
        act == activeFor(s, currentSlide)
    IN  slideAnimation(act.s, currentSlide, act.view, act.ts, embedded)

(* the message listener down to its scrollAnimation call *)
continuousDispatch(s, i, progress) ==
    LET currentSlide == At(s.slides, i)
        nextSlide == AtOrUndefined(s.slides, i + 1)
        act == activeFor(s, currentSlide)
    IN  scrollAnimation(act.s, currentSlide, nextSlide, progress, act.view,
                        act.ts)

(* no more than MaxWaits layer loads are left pending *)
DiscreteDispatch ==
    \E i \in 0 .. (Len(slides) - 1), e \in BOOLEAN :
        /\ Len(discreteDispatch(Cur, i, e).trackWaits) <= MaxWaits
        /\ Becomes(discreteDispatch(Cur, i, e))

(* a layer clone has loaded: trackLayer.when() resolves and the handler
   invocation that waited for it continues *)
TrackLayerLoaded ==
    \E n \in 1 .. Len(trackWaits) : Becomes(trackLayerLoaded(Cur, n))

ContinuousDispatch ==
    \E i \in 0 .. (Len(slides) - 1), p \in DispatchProgress :
        Becomes(continuousDispatch(Cur, i, p))

NextDispatch ==
    \/ MapViewReady
    \/ SceneReady
    \/ DiscreteDispatch
    \/ ContinuousDispatch
    \/ NavigationSettles
    \/ TrackLayerLoaded

SpecDispatch == InitDispatch /\ [][NextDispatch]_vars

----------------------------------------------------------------------------
(* The continuous dispatch on two 2D slides whose viewpoints differ in their
   rotation, for every pair of representable rotations up to MaxFloat and a
   rotation that is missing *)

MaxFloat == 16

Floats == {f \in Representable : f >= 0 /\ f <= MaxFloat}

RotationSlide(r) ==
    [Slide(<<0>>, NoTS) EXCEPT !.viewpoint = [VP(FALSE, TRUE) EXCEPT !.rotation = r],
                               !.keys = <<"maps", "viewpoint">>]

InitLerp ==
    /\ sceneElement = 0
    /\ sceneView = 0
    /\ activeWatcher = FALSE
    /\ needSceneLast = "null"
    /\ needScene = "null"
    /\ sinceLastSync = MaxSinceSync
    /\ sceneDestroyTimer = NoTimer
    /\ isSyncing = FALSE
    /\ releaseTimers = <<>>
    /\ sceneDom = {}
    /\ sceneGen = 2
    /\ readyPending = FALSE
    /\ hidden = [c \in Surfaces |-> c = 1]
    /\ opacity = [c \in Surfaces |-> 100]
    /\ pointerEvents = [c \in Surfaces |-> "unset"]
    /\ sliders = [c \in Surfaces |-> NewSlider]
    /\ environment = NewEnvironment
    /\ layerVisible = [c \in Surfaces |-> NewLayers]
    /\ pendingNav = [c \in Surfaces |-> "none"]
    /\ lastRotation = [c \in Surfaces |-> Undef]
    /\ watchers = 0
    /\ viewScale = [c \in Surfaces |-> InitialScale]
    /\ latitude = [c \in Surfaces |-> InitialLatitude]
    /\ layerList = [c \in Surfaces |-> NewLayerList]
    /\ trackWaits = <<>>
    /\ \E a \in Floats \cup {Undef}, b \in Floats \cup {Undef} :
            slides = << RotationSlide(a), RotationSlide(b) >>
    /\ mapView = TRUE
    /\ isEmbedded = FALSE
    /\ hashIndexLast = Null
    /\ hashIndex = Null

NextLerp ==
    \/ ContinuousDispatch
    \/ NavigationSettles

SpecLerp == InitLerp /\ [][NextLerp]_vars

----------------------------------------------------------------------------
(* The discrete dispatch on a choreography of the primary view whose slides
   reset the track layer with two different configurations and hide it:
   Slide 0: a one-second time step, track info "lines".
   Slide 1: a two-minute time step, track info "points".
   Slide 2: turns the track layer off. *)

ChorTrack ==
    << [Slide(<<0>>, TS(1000, 3000, 1, "seconds")) EXCEPT
            !.trackRenderer = TRI("track", "lines"),
            !.keys = <<"maps", "timeSlider", "trackRenderer">>],
       [Slide(<<0>>, TS(1000, 5000, 2, "minutes")) EXCEPT
            !.trackRenderer = TRI("track", "points"),
            !.keys = <<"maps", "timeSlider", "trackRenderer">>],
       [Slide(<<0>>, NoTS) EXCEPT
            !.layerVisibility = LV({}, {"track"}),
            !.keys = <<"maps", "layerVisibility">>] >>

InitTrack ==
    /\ sceneElement = 0
    /\ sceneView = 0
    /\ activeWatcher = FALSE
    /\ needSceneLast = "null"
    /\ needScene = "null"
    /\ sinceLastSync = MaxSinceSync
    /\ sceneDestroyTimer = NoTimer
    /\ isSyncing = FALSE
    /\ releaseTimers = <<>>
    /\ sceneDom = {}
    /\ sceneGen = 2
    /\ readyPending = FALSE
    /\ hidden = [c \in Surfaces |-> c = 1]
    /\ opacity = [c \in Surfaces |-> 100]
    /\ pointerEvents = [c \in Surfaces |-> "unset"]
    /\ sliders = [c \in Surfaces |-> NewSlider]
    /\ environment = NewEnvironment
    /\ layerVisible = [c \in Surfaces |-> NewLayers]
    /\ pendingNav = [c \in Surfaces |-> "none"]
    /\ lastRotation = [c \in Surfaces |-> Undef]
    /\ watchers = 0
    /\ viewScale = [c \in Surfaces |-> InitialScale]
    /\ latitude = [c \in Surfaces |-> InitialLatitude]
    /\ layerList = [c \in Surfaces |-> NewLayerList]
    /\ trackWaits = <<>>
    /\ slides = ChorTrack
    /\ mapView = FALSE
    /\ isEmbedded = FALSE
    /\ hashIndexLast = Null
    /\ hashIndex = Null

NextTrack ==
    \/ MapViewReady
    \/ DiscreteDispatch
    \/ TrackLayerLoaded

SpecTrack == InitTrack /\ [][NextTrack]_vars

----------------------------------------------------------------------------
(* Direct calls of the exported syncViews(fromView, toView), for every pair
   of views, and of crossfade, on views whose viewpoints have been navigated
   to one of a few scales and latitudes *)

Scales == {1000, 4000}

Latitudes == {0, 60}

InitScale ==
    /\ sceneElement = 0
    /\ sceneView = 0
    /\ activeWatcher = FALSE
    /\ needSceneLast = "null"
    /\ needScene = "null"
    /\ sinceLastSync = MaxSinceSync
    /\ sceneDestroyTimer = NoTimer
    /\ isSyncing = FALSE
    /\ releaseTimers = <<>>
    /\ sceneDom = {}
    /\ sceneGen = 2
    /\ readyPending = FALSE
    /\ hidden = [c \in Surfaces |-> c = 1]
    /\ opacity = [c \in Surfaces |-> 100]
    /\ pointerEvents = [c \in Surfaces |-> "unset"]
    /\ sliders = [c \in Surfaces |-> NewSlider]
    /\ environment = NewEnvironment
    /\ layerVisible = [c \in Surfaces |-> NewLayers]
    /\ pendingNav = [c \in Surfaces |-> "none"]
    /\ lastRotation = [c \in Surfaces |-> Undef]
    /\ watchers = 0
    /\ viewScale \in [Surfaces -> Scales]
    /\ latitude \in [Surfaces -> Latitudes]
    /\ layerList = [c \in Surfaces |-> NewLayerList]
    /\ trackWaits = <<>>
    /\ slides = ChorScene
    /\ mapView = FALSE
    /\ isEmbedded = FALSE
    /\ hashIndexLast = Null
    /\ hashIndex = Null

SyncViewsCall ==
    \E from \in Surfaces, to \in Surfaces : Becomes(syncViews(Cur, from, to))

FadeSteps == {0, 50, 100}

FadeCall ==
    \E pr \in FadePairs, t \in FadeSteps : Becomes(crossfade(Cur, pr[1], pr[2], t))

NextScale ==
    \/ SyncViewsCall
    \/ FadeCall
    \/ MapViewReady
    \/ SceneReady
    \/ ReleaseTimerFires
    \/ NavigationSettles
    \/ Tick

SpecScale == InitScale /\ [][NextScale]_vars

----------------------------------------------------------------------------
(* The page driven by hash navigation only, on a choreography whose last
   slide is shown on the scene and has layers, a camera viewpoint and an
   environment block; slide 0 is more than one slide away from it.  The
   engine raises the ready event of a created element, a pending navigation
   settles, time passes and due timers run. *)

ChorLate ==
    << Slide(<<0>>, NoTS),
       Slide(<<0>>, NoTS),
       [Slide(<<1>>, NoTS) EXCEPT
            !.layerVisibility = LV({"track"}, {"dams"}),
            !.viewpoint = VP(TRUE, TRUE),
            !.environment = Env(NoLighting, Weather("rainy", Undef, Undef),
                                "undefined", "undefined"),
            !.keys = <<"maps", "layerVisibility", "viewpoint",
                       "environment">>] >>

InitLate ==
    /\ sceneElement = 0
    /\ sceneView = 0
    /\ activeWatcher = FALSE
    /\ needSceneLast = "null"
    /\ needScene = "null"
    /\ sinceLastSync = MaxSinceSync
    /\ sceneDestroyTimer = NoTimer
    /\ isSyncing = FALSE
    /\ releaseTimers = <<>>
    /\ sceneDom = {}
    /\ sceneGen = 2
    /\ readyPending = FALSE
    /\ hidden = [c \in Surfaces |-> c = 1]
    /\ opacity = [c \in Surfaces |-> 100]
    /\ pointerEvents = [c \in Surfaces |-> "unset"]
    /\ sliders = [c \in Surfaces |-> NewSlider]
    /\ environment = NewEnvironment
    /\ layerVisible = [c \in Surfaces |-> NewLayers]
    /\ pendingNav = [c \in Surfaces |-> "none"]
    /\ lastRotation = [c \in Surfaces |-> Undef]
    /\ watchers = 0
    /\ viewScale = [c \in Surfaces |-> InitialScale]
    /\ latitude = [c \in Surfaces |-> InitialLatitude]
    /\ layerList = [c \in Surfaces |-> NewLayerList]
    /\ trackWaits = <<>>
    /\ slides = ChorLate
    /\ mapView = FALSE
    /\ isEmbedded = FALSE
    /\ hashIndexLast = Null
    /\ hashIndex = Null

NextLate ==
    \/ MapViewReady
    \/ HashChange
    \/ SceneReady
    \/ DestroyTimerFires
    \/ ReleaseTimerFires
    \/ ViewpointChanged
    \/ NavigationSettles
    \/ Tick

SpecLate ==
    /\ InitLate
    /\ [][NextLate]_vars
    /\ WF_vars(SceneReady)
    /\ WF_vars(NavigationSettles)
    /\ WF_vars(Tick)
    /\ WF_vars(ReleaseTimerFires)
    /\ WF_vars(DestroyTimerFires)

----------------------------------------------------------------------------
(* Properties.  Loaded: the listeners are installed. *)

Loaded == slides # <<>>

ValidIndices == 0 .. (Len(slides) - 1)

(* the slide at index j exists and lists surface 1 among its maps *)
References1(sl, j) ==
    /\ j >= 0
    /\ j < Len(sl)
    /\ \E k \in DOMAIN sl[j + 1].maps : sl[j + 1].maps[k] = 1

NeededAt(sl, i) == \E j \in {i - 1, i, i + 1} : References1(sl, j)

(* C1: when a destroy is pending and a hashchange runs the lifecycle
   evaluation for an index whose neighbourhood uses the scene, the evaluation
   cancels the timer and keeps the very same element, without calling
   configureMap; and an element is present whenever a destroy is pending, so
   the element is never destroyed and re-created in between. *)
C1_ReneedCancelsDestroy ==
    /\ sceneDestroyTimer # NoTimer => sceneElement # 0
    /\ Loaded =>
        \A h \in ValidIndices :
            LET r == hashListener(Cur, h)
            IN  (sceneDestroyTimer # NoTimer /\ r.did.evaluated = h
                    /\ NeededAt(slides, h))
                => /\ r.sceneDestroyTimer = NoTimer
                   /\ r.sceneElement = sceneElement
                   /\ r.sceneDom = sceneDom
                   /\ r.did.configured = 0

C1_Witness ==
    /\ Loaded
    /\ sceneDestroyTimer > 0
    /\ sceneDestroyTimer < SCENE_DESTROY_DELAY
    /\ sceneView # 0
    /\ \E h \in ValidIndices :
            LET r == hashListener(Cur, h)
            IN  r.did.evaluated = h /\ NeededAt(slides, h)
                /\ r.sceneDestroyTimer = NoTimer /\ r.sceneElement = sceneElement

(* C2: an evaluation that changes need from true to false arms the timer with
   the 600 ms grace delay and leaves the element in place; when the timer
   fires the element and the view are null, the element is out of the DOM and
   no timer remains. *)
C2_GraceTimerDestroys ==
    /\ Loaded =>
        \A h \in ValidIndices :
            LET r == hashListener(Cur, h)
            IN  (r.did.evaluated = h /\ ~NeededAt(slides, h) /\ needScene = "true"
                    /\ sceneElement # 0)
                => /\ r.sceneDestroyTimer = SCENE_DESTROY_DELAY
                   /\ r.sceneElement = sceneElement
    /\ sceneDestroyTimer = 0 =>
        LET r == destroyTimerCallback(Cur)
        IN  /\ r.sceneElement = 0
            /\ r.sceneView = 0
            /\ r.sceneDom = {}
            /\ r.sceneDestroyTimer = NoTimer

C2_Witness ==
    /\ sceneDestroyTimer = 0
    /\ sceneElement # 0
    /\ sceneView # 0
    /\ needScene = "false"
    /\ destroyTimerCallback(Cur).sceneElement = 0

(* C4: while the element is present, ensureScene - called once or twice more
   - returns that element, does not call configureMap, leaves no destroy
   timer and changes nothing else; and the scene container never holds more
   than one scene element, which is the one sceneElement names. *)
SameButTimer(r, s) ==
    [r EXCEPT !.did = NoCalls, !.sceneDestroyTimer = NoTimer]
        = [s EXCEPT !.did = NoCalls, !.sceneDestroyTimer = NoTimer]

C4_EnsureIdempotent ==
    /\ Cardinality(sceneDom) <= 1
    /\ sceneElement # 0 => sceneDom = {sceneElement}
    /\ sceneElement # 0 =>
        LET r1 == ensureScene(Cur)
            r2 == ensureScene(r1)
        IN  /\ r1.did.returned = sceneElement
            /\ r2.did.returned = sceneElement
            /\ r2.did.configured = 0
            /\ r1.sceneDestroyTimer = NoTimer
            /\ r2.sceneDestroyTimer = NoTimer
            /\ SameButTimer(r1, Cur)
            /\ SameButTimer(r2, Cur)

C4_Witness ==
    /\ sceneElement # 0
    /\ sceneDestroyTimer # NoTimer
    /\ ensureScene(Cur).sceneDestroyTimer = NoTimer
    /\ ensureScene(Cur).did.returned = sceneElement
(* C3: evaluateSceneLifecycle(index, slides), which createScene stores in
   needScene, is true exactly when one of the slides at index-1, index,
   index+1 exists and lists surface 1; when a single slide k lists surface 1
   it is true exactly for k-1, k and k+1, also for indices outside the
   choreography. *)
OnlyReference(sl, k) ==
    \A j \in 0 .. (Len(sl) - 1) : References1(sl, j) <=> j = k

C3_NeedIsNeighbourhood ==
    \A i \in EvalIndices(slides) :
        /\ evaluateSceneLifecycle(i, slides) <=> NeededAt(slides, i)
        /\ createScene(Cur, i).needScene = Bool(NeededAt(slides, i))
        /\ createScene(Cur, i).needSceneLast = needScene
        /\ \A k \in ValidIndices :
                OnlyReference(slides, k)
                => (evaluateSceneLifecycle(i, slides) <=> i \in {k - 1, k, k + 1})

C3_Witness ==
    /\ Len(slides) = MaxSlides
    /\ OnlyReference(slides, 0)
    /\ needSceneLast = "true"
    /\ needScene = "false"
    /\ evaluateSceneLifecycle(0 - 1, slides)
    /\ ~evaluateSceneLifecycle(2, slides)
    /\ ~evaluateSceneLifecycle(0 - 2, slides)

(* C5 (the claim as stated): the scene lifecycle follows the reader on every
   slide-boundary crossing, also when the crossings arrive as controller
   messages - once no destroy is pending, the scene element is present
   exactly when a slide within one position of the last seen slide uses
   surface 1. *)
C5_PresenceFollowsNeed ==
    (Loaded /\ hashIndex = Null /\ hashIndexLast # Null
        /\ sceneDestroyTimer = NoTimer)
    => (sceneElement # 0 <=> NeededAt(slides, hashIndexLast))

(* the messages that crossfade: those for a slide with two maps *)
CrossfadeSlides == {i \in ValidIndices : Len(At(slides, i).maps) > 1}

(* C6 (the claim as stated): after a crossfade with 0.2 <= t <= 0.8 neither
   container is hidden and the opacities are 1-t and t, whatever t the
   earlier crossfades had. *)
C6_BandShowsBoth ==
    Loaded =>
        \A i \in CrossfadeSlides, e \in BOOLEAN, p \in ProgressValues :
            LET m == At(slides, i).maps
                r == messageListener(Cur, e, i, p)
            IN  (p >= 20 /\ p <= 80)
                => /\ ~r.hidden[m[1]]
                   /\ ~r.hidden[m[2]]
                   /\ r.opacity[m[1]] = 100 - p
                   /\ r.opacity[m[2]] = p

(* C7 (the claim as stated): after a crossfade exactly one container owns
   pointer interaction, the one at least 50% opaque, the tie at t = 0.5 going
   to the 'to' container. *)
C7_PointerOwner ==
    Loaded =>
        \A i \in CrossfadeSlides, e \in BOOLEAN, p \in ProgressValues :
            LET m == At(slides, i).maps
                r == messageListener(Cur, e, i, p)
            IN  /\ r.pointerEvents[m[2]] = (IF p >= 50 THEN "auto" ELSE "none")
                /\ r.pointerEvents[m[1]] = (IF p >= 50 THEN "none" ELSE "auto")

(* C8: crossfade(0,1,t) with t <= 0 leaves container 1 hidden and container
   0 at opacity 1 with pointer interaction; with t >= 1 it leaves container
   0 hidden and container 1 shown at opacity 1 with pointer interaction; for
   every t the opacities stay within [0,1]. *)
C8_ClampsT ==
    \A t \in TValues :
        LET r == crossfade(Cur, 0, 1, t)
        IN  /\ r.opacity[0] \in 0 .. 100
            /\ r.opacity[1] \in 0 .. 100
            /\ t <= 0 => /\ r.hidden[1]
                         /\ r.opacity[0] = 100
                         /\ r.pointerEvents[0] = "auto"
            /\ t >= 100 => /\ r.hidden[0]
                           /\ ~r.hidden[1]
                           /\ r.opacity[1] = 100
                           /\ r.pointerEvents[1] = "auto"

C8_Witness ==
    /\ hidden[0]
    /\ ~hidden[1]
    /\ opacity[1] = 100
    /\ pointerEvents[1] = "auto"
    /\ crossfade(Cur, 0, 1, 0 - 10).hidden[1]
    /\ crossfade(Cur, 0, 1, 0 - 10).opacity[0] = 100
    /\ ~crossfade(Cur, 0, 1, 110).hidden[1]

(* the slides with a complete time window *)
TimedSlides ==
    {i \in ValidIndices : /\ At(slides, i).timeSlider # NoTS
                          /\ At(slides, i).timeSlider.timeSliderStart # 0
                          /\ At(slides, i).timeSlider.timeSliderEnd # 0}

(* C9 (the claim as stated): after the discrete handler has run for a slide
   with a time window, the full extent is [start, end], the extent end is at
   start, and playback is playing when not embedded and stopped when
   embedded, whatever the widget was doing before. *)
C9_DiscreteTimeControl ==
    Loaded =>
        \A h \in TimedSlides :
            LET r == hashListener(Cur, h)
                w == r.sliders[activeFor(Cur, At(slides, h)).ts]
                c == At(slides, h).timeSlider
            IN  /\ w.fullStart = c.timeSliderStart
                /\ w.fullEnd = c.timeSliderEnd
                /\ w.extentEnd = c.timeSliderStart
                /\ w.state = (IF isEmbedded THEN "ready" ELSE "playing")

(* C10 (the claim as stated): after a continuous dispatch for a slide with a
   timeSlider block the extent end has been set and playback is stopped, for
   every progress and step configuration; with stepMs <= 0 the extent end is
   min(interpolated time, end). *)
C10_ContinuousTimeControl ==
    Loaded =>
        \A i \in ValidIndices, p \in ProgressValues :
            LET sl == At(slides, i)
                c == sl.timeSlider
                a == activeFor(Cur, sl)
                r == scrollAnimation(a.s, sl, AtOrUndefined(slides, i + 1), p, a.view, a.ts)
                stepMs == c.timeSliderStep * unitToMs(c.timeSliderUnit)
                interpolated == c.timeSliderStart
                    + ((c.timeSliderEnd - c.timeSliderStart) * p) \div 100
            IN  c # NoTS
                => /\ r.did.timeSet = 1
                   /\ r.sliders[a.ts].state = "ready"
                   /\ stepMs <= 0
                        => r.sliders[a.ts].extentEnd = Min(interpolated, c.timeSliderEnd)

(* C11: for start <= end, stepMs > 0 and progress p in [0,1], the extent end
   set by the continuous time handler is
   min(end, max(start, start + k*stepMs)), k the least integer with
   k*stepMs >= p*(end-start); it lies in [start, end], is not below the
   unsnapped interpolated time unless it is end, and an offset that is a
   whole multiple of stepMs is kept as it is. *)
LeastSteps(num, stepMs) ==
    CHOOSE k \in 0 .. (num \div (100 * stepMs) + 1) :
        /\ k * stepMs * 100 >= num
        /\ (k - 1) * stepMs * 100 < num

InvalidHashes == HashValues(slides) \ ValidIndices

SameButHashLast(r, s) ==
    [r EXCEPT !.hashIndexLast = Null] = [s EXCEPT !.hashIndexLast = Null]

C14_DiscreteOnSlideChange ==
    Loaded =>
        \A e \in BOOLEAN, i \in ValidIndices, j \in ValidIndices,
           p \in ProgressValues, q \in ProgressValues :
            LET r1 == messageListener(Cur, e, i, p)
                r2 == messageListener([r1 EXCEPT !.did = NoCalls], e, j, q)
            IN  /\ r1.did.continuous = 1
                /\ r2.did.continuous = 1
                /\ r2.did.discrete = (IF j # i THEN 1 ELSE 0)
                /\ (hashIndexLast = Null /\ hashIndex = Null) => r1.did.discrete = 1
                /\ ~r1.did.threw
                /\ ~r2.did.threw

C14_Witness ==
    /\ Loaded
    /\ hashIndex = Null
    /\ hashIndexLast = 2
    /\ isEmbedded
    /\ messageListener(Cur, TRUE, 2, 50).did.discrete = 0
    /\ messageListener(Cur, TRUE, 2, 50).did.continuous = 1
    /\ messageListener(Cur, TRUE, 3, 0).did.discrete = 1

(* C20 (the claim as stated): a sync watcher is held only while the
   secondary view is live, i.e. its view reference has been captured. *)
C20_WatcherOnlyIfLive ==
    activeWatcher => sceneView # 0

(* C12: a discrete or continuous dispatch never ends by an exception; the
   handlers it calls are exactly those of the slide's recognized keys, in
   the slide's key order, whether or not one of them threw; keys without a
   handler are never called; and the time window, the layers and the
   environment are applied by their handlers also when another handler of
   the same dispatch threw. *)
Recognized(keys, names) == SelectSeq(keys, LAMBDA k : k \in names)

HasWindow(sl) ==
    /\ sl.timeSlider # NoTS
    /\ sl.timeSlider.timeSliderStart # 0
    /\ sl.timeSlider.timeSliderEnd # 0

C12_FailureIsolation ==
    \A i \in ValidIndices :
        LET sl == At(slides, i)
            act == activeFor(Cur, sl)
        IN  /\ \A e \in BOOLEAN :
                LET r == discreteDispatch(Cur, i, e)
                IN  /\ ~r.did.threw
                    /\ ~r.did.raised
                    /\ r.did.invoked = Recognized(sl.keys,
                            {"timeSlider", "layerVisibility", "trackRenderer",
                             "environment"} \cup (IF e THEN {} ELSE {"viewpoint"}))
                    /\ (HasWindow(sl) /\ sl.timeSlider.timeSliderStart > 0)
                        => /\ r.sliders[act.ts].fullStart = sl.timeSlider.timeSliderStart
                           /\ r.sliders[act.ts].fullEnd = sl.timeSlider.timeSliderEnd
                    /\ (sl.layerVisibility.present /\ ViewOf(act.s, act.view))
                        => \A t \in sl.layerVisibility.layersOn
                                    \ sl.layerVisibility.layersOff :
                              r.layerVisible[act.view][t]
            /\ \A p \in DispatchProgress :
                LET r == continuousDispatch(Cur, i, p)
                IN  /\ ~r.did.threw
                    /\ ~r.did.raised
                    /\ r.did.invoked = Recognized(sl.keys,
                            {"viewpoint", "timeSlider", "environment"})
                    /\ HasWindow(sl)
                        => r.sliders[act.ts].extentEnd =
                            ClampedTime(sl.timeSlider.timeSliderStart,
                                        sl.timeSlider.timeSliderEnd,
                                        sl.timeSlider.timeSliderStep
                                            * unitToMs(sl.timeSlider.timeSliderUnit),
                                        p)

C12_Witness ==
    /\ slides = ChorAspects
    /\ sceneElement # 0
    /\ sceneView = 0
    /\ sliders[1].fullStart = 1000
    /\ layerVisible[1] = NewLayers
    /\ discreteDispatch(Cur, 2, FALSE).did.caught = 2
    /\ discreteDispatch(Cur, 2, FALSE).sliders[1].state = "playing"
    /\ continuousDispatch(Cur, 2, 50).did.caught = 2
    /\ continuousDispatch(Cur, 2, 50).sliders[1].extentEnd = 2000

(* C15: an embedded discrete dispatch does not call the viewpoint handler
   and issues no navigation, and calls the handler of every time-window,
   layer, track-renderer and environment key of the slide; a dispatch that
   is not embedded calls the viewpoint handler as well, which navigates the
   live view. *)
Called(r, key) == \E k \in 1 .. Len(r.did.invoked) : r.did.invoked[k] = key

HasKey(sl, key) == \E k \in 1 .. Len(sl.keys) : sl.keys[k] = key

C16_PatchPreservesFields ==
    \A i \in ValidIndices, e \in BOOLEAN :
        LET sl == At(slides, i)
            b == sl.environment
            old == environment[1]
            new == discreteDispatch(Cur, i, e).environment[1]
        IN  (b.present /\ sl.maps = <<1>> /\ sceneView # 0)
            => /\ b.lighting.type = "undefined"
                    => new.lighting.type = old.lighting.type
               /\ b.lighting.datetime = Undef
                    => /\ new.lighting.datetime = old.lighting.datetime
                       /\ new.lighting.date = old.lighting.date
               /\ b.lighting.displayUTCOffset = Undef
                    => new.lighting.displayUTCOffset = old.lighting.displayUTCOffset
               /\ b.weather.type = "undefined"
                    => new.weather.type = old.weather.type
               /\ b.weather.cloudCover = Undef
                    => new.weather.cloudCover = old.weather.cloudCover
               /\ b.weather.precipitation = Undef
                    => new.weather.precipitation = old.weather.precipitation
               /\ b.atmosphereEnabled = "undefined"
                    => new.atmosphereEnabled = old.atmosphereEnabled
               /\ b.starsEnabled = "undefined"
                    => new.starsEnabled = old.starsEnabled

(* C17: for two slides with complete environment blocks and a live scene
   view, a continuous dispatch at progress p sets the lighting date to
   cur + p*(next - cur), cloud cover and precipitation to the same
   interpolation where both slides give them, and the lighting type and the
   weather type to the next slide's. *)
CompleteEnv(b) ==
    /\ b.present
    /\ b.lighting.present
    /\ b.lighting.datetime # Undef
    /\ b.weather.present

NoAbortSurfaces(r) == r.did.abortLogged = 0 /\ r.did.abortUnhandled = 0

C19_AbortSuppressed ==
    /\ \A i \in ValidIndices :
            /\ \A e \in BOOLEAN : NoAbortSurfaces(discreteDispatch(Cur, i, e))
            /\ \A p \in DispatchProgress :
                    NoAbortSurfaces(continuousDispatch(Cur, i, p))
    /\ (activeWatcher /\ mapView) => NoAbortSurfaces(watcherCallback(Cur))

(* C18 (the claim as stated): lerp(a, b, t) is a at t = 0 and b at t = 1, is
   non-decreasing in t when a < b, and is the defined endpoint for every t
   when exactly one endpoint is undefined; so the rotation given to goTo by
   the continuous viewpoint handler is the current slide's at progress 0 and
   the next slide's at progress 1. *)
C18_LerpContract ==
    LET a == slides[1].viewpoint.rotation
        b == slides[2].viewpoint.rotation
    IN  /\ (a # Undef /\ b # Undef)
            => /\ lerp(a, b, 0) = a
               /\ lerp(a, b, 100) = b
               /\ continuousDispatch(Cur, 0, 0).lastRotation[0] = a
               /\ continuousDispatch(Cur, 0, 100).lastRotation[0] = b
               /\ a < b => \A t1 \in DispatchProgress, t2 \in DispatchProgress :
                                t1 <= t2 => lerp(a, b, t1) <= lerp(a, b, t2)
        /\ (a = Undef /\ b # Undef)
            => \A t \in DispatchProgress : lerp(a, b, t) = b
        /\ (a # Undef /\ b = Undef)
            => \A t \in DispatchProgress : lerp(a, b, t) = a

(* C21: a lifecycle evaluation that finds the scene not required leaves no
   watcher, in that same call, while the destroy it scheduled is still
   pending, and makes no sync itself; so at no time during the grace period
   is a watcher held, and no viewpoint change of the primary view is synced
   to the scene by the watcher then. *)
C21_WatcherRemovedAtOnce ==
    /\ sceneDestroyTimer # NoTimer => ~activeWatcher
    /\ \A index \in EvalIndices(slides) :
            LET r == createScene(Cur, index)
            IN  ~NeededAt(slides, index)
                => /\ ~r.activeWatcher
                   /\ r.did.synced = 0
                   /\ activeWatcher => r.sceneDestroyTimer = SCENE_DESTROY_DELAY
                   /\ r.sceneDestroyTimer # NoTimer
                        => r.sceneElement = sceneElement

C21_Witness ==
    /\ sceneDestroyTimer > 0
    /\ sceneDestroyTimer < SCENE_DESTROY_DELAY
    /\ sceneView # 0
    /\ mapView
    /\ ~isSyncing
    /\ sinceLastSync > SYNC_THROTTLE_MS
    /\ ~activeWatcher
    /\ needScene = "false"

(* C22: an evaluation that finds the scene required while a watcher is held
   calls neither ensureScene nor watch nor remove and changes nothing but
   the two recorded need values; watch is called only when no watcher is
   held; and the primary view never has more than one watcher registered -
   exactly one while the handle is held, none otherwise. *)
SameButNeed(r, s) ==
    [r EXCEPT !.did = NoCalls, !.needScene = "null", !.needSceneLast = "null"]
        = [s EXCEPT !.did = NoCalls, !.needScene = "null", !.needSceneLast = "null"]

C22_OneWatcher ==
    /\ watchers <= 1
    /\ watchers = (IF activeWatcher THEN 1 ELSE 0)
    /\ \A index \in EvalIndices(slides) :
            LET r == createScene(Cur, index)
            IN  /\ (NeededAt(slides, index) /\ activeWatcher)
                    => /\ r.did.ensured = 0
                       /\ r.did.configured = 0
                       /\ r.did.watched = 0
                       /\ r.did.unwatched = 0
                       /\ SameButNeed(r, Cur)
                /\ r.did.watched = (IF NeededAt(slides, index) /\ ~activeWatcher
                                    THEN 1 ELSE 0)
                /\ r.watchers <= 1

C22_Witness ==
    /\ activeWatcher
    /\ watchers = 1
    /\ sceneView # 0
    /\ needSceneLast = "true"
    /\ \E index \in EvalIndices(slides) :
            /\ NeededAt(slides, index)
            /\ createScene(Cur, index).did.ensured = 0
            /\ createScene(Cur, index).watchers = 1

(* C23 (the claim as stated): a viewpoint change seen by the watcher while
   no sync is in progress, the scene view is live and at least
   SYNC_THROTTLE_MS have passed since the last watcher sync - exactly
   SYNC_THROTTLE_MS included - is synced to the scene view. *)
C23_SyncAtThrottle ==
    (activeWatcher /\ mapView /\ ~isSyncing /\ sceneView # 0
        /\ sinceLastSync >= SYNC_THROTTLE_MS)
    => /\ watcherCallback(Cur).did.synced = 1
       /\ watcherCallback(Cur).pendingNav[1] = "sync"
       /\ watcherCallback(Cur).sinceLastSync = 0

(* C24: a viewpoint change that the watcher sees inside the throttle window,
   or while a sync is in progress, leaves the whole program state as it was
   - no navigation, no timer, nothing recorded - so nothing can sync on its
   behalf later; every step that starts a sync (adds a release timer) is the
   handling of a viewpoint change or a crossfade call, never a timer; and
   every step that records a watcher sync is the handling of a viewpoint
   change outside the window, with no sync in progress. *)
Discards(s) ==
    s.isSyncing \/ s.sceneView = 0 \/ s.sinceLastSync <= SYNC_THROTTLE_MS

C24_ThrottleDrops ==
    /\ []((activeWatcher /\ mapView /\ Discards(Cur))
            => watcherCallback(Cur) = Cur)
    /\ [][Len(releaseTimers') > Len(releaseTimers)
            => (ViewpointChanged \/ CrossfadeCall)]_vars
    /\ [][(sinceLastSync' = 0 /\ sinceLastSync # 0)
            => (ViewpointChanged /\ ~Discards(Cur))]_vars

C24_Witness ==
    /\ activeWatcher
    /\ mapView
    /\ sceneView # 0
    /\ ~isSyncing
    /\ releaseTimers = <<>>
    /\ pendingNav[1] = "none"
    /\ sinceLastSync = SYNC_THROTTLE_MS
    /\ watcherCallback(Cur) = Cur

(* C25: while the busy flag is set, syncViews - called directly in either
   direction, by the watcher callback or by crossfade - issues no
   navigation and leaves no trace (no timer, nothing queued); exactly one
   release timer is outstanding while the flag is set and none otherwise;
   and a set flag is always released. *)
C25_ReentrancyGuard ==
    /\ [](/\ Len(releaseTimers) = (IF isSyncing THEN 1 ELSE 0)
          /\ isSyncing =>
                /\ \A from \in Surfaces, to \in Surfaces :
                        syncViews(Cur, from, to) = Cur
                /\ watcherCallback(Cur) = Cur
                /\ \A pr \in FadePairs, t \in TValues :
                        LET r == crossfade(Cur, pr[1], pr[2], t)
                        IN  /\ r.did.synced = 0
                            /\ r.did.navigated = 0
                            /\ r.releaseTimers = releaseTimers
                            /\ r.pendingNav = pendingNav)
    /\ (isSyncing ~> ~isSyncing)

C25_Witness ==
    /\ isSyncing
    /\ releaseTimers = <<SYNC_DEBOUNCE_MS>>
    /\ mapView
    /\ sceneView # 0
    /\ activeWatcher
    /\ sinceLastSync > SYNC_THROTTLE_MS
    /\ pendingNav[0] = "sync"
    /\ syncViews(Cur, 0, 1) = Cur
    /\ crossfade(Cur, 0, 1, 50).did.synced = 0

(* C26: after crossfade(from, to, t) the scene element is present, in the
   container, with no destroy pending, whenever to = 1 and t > 0 or from = 1
   and t < 1 - the element that was there if there was one, a new one
   otherwise; crossfade(0,1,t) with t <= 0 and crossfade(1,0,t) with t >= 1
   call neither ensureScene nor configureMap and leave the element and the
   timer as they were. *)
C26_CrossfadeEnsures ==
    \A from \in Surfaces, to \in Surfaces, t \in TValues :
        LET r == crossfade(Cur, from, to, t)
        IN  /\ ((to = 1 /\ t > 0) \/ (from = 1 /\ t < 100))
                => /\ r.sceneElement # 0
                   /\ r.sceneDom = {r.sceneElement}
                   /\ r.sceneDestroyTimer = NoTimer
                   /\ sceneElement # 0 => r.sceneElement = sceneElement
                   /\ r.did.configured = (IF sceneElement = 0 THEN 1 ELSE 0)
            /\ ((from = 0 /\ to = 1 /\ t <= 0) \/ (from = 1 /\ to = 0 /\ t >= 100))
                => /\ r.did.ensured = 0
                   /\ r.did.configured = 0
                   /\ r.sceneElement = sceneElement
                   /\ r.sceneDom = sceneDom
                   /\ r.sceneDestroyTimer = sceneDestroyTimer

C26_Witness ==
    /\ sceneElement # 0
    /\ sceneDestroyTimer > 0
    /\ hidden[1]
    /\ crossfade(Cur, 1, 0, 0).sceneDestroyTimer = NoTimer
    /\ crossfade(Cur, 1, 0, 0).sceneElement = sceneElement
    /\ crossfade(Cur, 1, 0, 100).sceneDestroyTimer = sceneDestroyTimer
    /\ crossfade(Cur, 0, 1, 10).sceneDestroyTimer = NoTimer
    /\ crossfade(Cur, 0, 1, 0).sceneDestroyTimer = sceneDestroyTimer

(* C27 (the claim as stated): in every dispatch the handlers are called in
   the declared order - viewpoint, time, layers, track, environment
   (discrete); viewpoint, time, environment (continuous) - whatever the
   order of the keys in the slide. *)
DeclaredDiscrete ==
    <<"viewpoint", "timeSlider", "layerVisibility", "trackRenderer",
      "environment">>

DeclaredContinuous == <<"viewpoint", "timeSlider", "environment">>

(* the calls are those members of the declared sequence that were called,
   in the declared order *)
InDeclaredOrder(invoked, declared) ==
    invoked = SelectSeq(declared,
                        LAMBDA k : \E n \in 1 .. Len(invoked) : invoked[n] = k)

C27_DeclaredOrder ==
    \A i \in ValidIndices :
        /\ \A e \in BOOLEAN :
                InDeclaredOrder(discreteDispatch(Cur, i, e).did.invoked,
                                DeclaredDiscrete)
        /\ \A p \in DispatchProgress :
                InDeclaredOrder(continuousDispatch(Cur, i, p).did.invoked,
                                DeclaredContinuous)

(* C28 (the claim as stated): the scale of the viewpoint that syncViews
   gives to the destination view is the source view's scale divided by
   cos(latitude) from a 2D view to a 3D view, multiplied by it from a 3D
   view to a 2D view, and unchanged between views of the same type. *)
C28_ScaleConversion ==
    \A from \in Surfaces, to \in Surfaces :
        LET r == syncViews(Cur, from, to)
            factor == CosPercent(latitude[from])
            scale == viewScale[from]
        IN  r.did.synced = 1
            => /\ (ViewType(from) = "2d" /\ ViewType(to) = "3d")
                    => r.did.syncedScale * factor = scale * 100
               /\ (ViewType(from) = "3d" /\ ViewType(to) = "2d")
                    => r.did.syncedScale * 100 = scale * factor
               /\ ViewType(from) = ViewType(to)
                    => r.did.syncedScale = scale

(* C29: a discrete or continuous dispatch for a slide whose first map is the
   scene, made while the scene view reference is null, ends without an
   exception, issues no navigation on either view, and applies the slide's
   time window to the scene's own time slider: full extent and start frame
   (discrete), snapped end of the extent (continuous). *)
SceneSlides == {i \in ValidIndices : At(slides, i).maps = <<1>>}

C29_NullViewTolerated ==
    sceneView = 0 =>
        \A i \in SceneSlides :
            LET sl == At(slides, i)
                c == sl.timeSlider
            IN  /\ \A e \in BOOLEAN :
                    LET r == discreteDispatch(Cur, i, e)
                    IN  /\ ~r.did.threw
                        /\ ~r.did.raised
                        /\ r.did.navigated = 0
                        /\ r.pendingNav = pendingNav
                        /\ r.sceneView = 0
                        /\ HasWindow(sl)
                            => /\ r.did.timeSet = 1
                               /\ r.sliders[1].fullStart = c.timeSliderStart
                               /\ r.sliders[1].fullEnd = c.timeSliderEnd
                               /\ r.sliders[1].extentEnd = c.timeSliderStart
                /\ \A p \in DispatchProgress :
                    LET r == continuousDispatch(Cur, i, p)
                    IN  /\ ~r.did.threw
                        /\ ~r.did.raised
                        /\ r.did.navigated = 0
                        /\ r.pendingNav = pendingNav
                        /\ (c # NoTS
                                /\ c.timeSliderStep * unitToMs(c.timeSliderUnit) > 0)
                            => /\ r.did.timeSet = 1
                               /\ r.sliders[1].extentEnd =
                                    ClampedTime(c.timeSliderStart, c.timeSliderEnd,
                                        c.timeSliderStep * unitToMs(c.timeSliderUnit),
                                        p)

C29_Witness ==
    /\ slides = ChorAspects
    /\ mapView
    /\ sceneElement # 0
    /\ sceneView = 0
    /\ readyPending
    /\ sliders[1].fullEnd = 3000
    /\ sliders[1].extentEnd = 1000
    /\ pendingNav = [c \in Surfaces |-> "none"]
    /\ HasKey(At(slides, 2), "viewpoint")
    /\ discreteDispatch(Cur, 2, FALSE).did.navigated = 0
    /\ continuousDispatch(Cur, 2, 50).sliders[1].extentEnd = 2000

(* C30: when the track-renderer handler is invoked for the same layer twice
   and the first invocation's layer load has not resolved in between, then
   after both loads have resolved - in either order, and also after every
   older pending load has resolved - the map holds exactly one layer with
   that title, at the position the layer had before the two invocations,
   visible, with the interval and track info of the second invocation. *)
TrackSlides == {i \in ValidIndices : At(slides, i).trackRenderer.present}

TitleCount(layers, title) ==
    Cardinality({k \in 1 .. Len(layers) : layers[k].title = title})

RECURSIVE ResolveAll(_)
ResolveAll(s) ==
    IF s.trackWaits = <<>> THEN s ELSE ResolveAll(trackLayerLoaded(s, 1))

SettledAs(f, title, position, config) ==
    /\ Len(f.layerList[0]) = Len(layerList[0])
    /\ TitleCount(f.layerList[0], title) = 1
    /\ f.layerList[0][position].title = title
    /\ f.layerList[0][position].config = config
    /\ f.layerVisible[0][title]

C30_TrackResetTwice ==
    mapView =>
        \A i \in TrackSlides, j \in TrackSlides, e \in BOOLEAN :
            LET title == At(slides, i).trackRenderer.trackLayerName
                position == FindLayer(layerList[0], title)
                sj == At(slides, j)
                later == TrackConfig(sj.timeSlider.timeSliderUnit,
                                     sj.timeSlider.timeSliderStep,
                                     sj.trackRenderer.trackInfo)
                a == discreteDispatch(Cur, i, e)
                b == discreteDispatch(a, j, e)
                first == Len(trackWaits) + 1
                firstThenSecond == trackLayerLoaded(trackLayerLoaded(b, first), first)
                secondThenFirst == trackLayerLoaded(trackLayerLoaded(b, first + 1), first)
            IN  /\ Len(b.trackWaits) = Len(trackWaits) + 2
                /\ SettledAs(firstThenSecond, title, position, later)
                /\ SettledAs(secondThenFirst, title, position, later)
                /\ SettledAs(ResolveAll(firstThenSecond), title, position, later)
                /\ SettledAs(ResolveAll(secondThenFirst), title, position, later)

C30_Witness ==
    /\ mapView
    /\ Len(trackWaits) = 2
    /\ trackWaits[1].config = TrackConfig("seconds", 1, "lines")
    /\ trackWaits[2].config = TrackConfig("minutes", 2, "points")
    /\ FindObject(layerList[0], trackWaits[1].object) = 0
    /\ FindObject(layerList[0], trackWaits[2].object) = 1
    /\ ~layerVisible[0]["track"]
    /\ layerList[0][1].config = NoTrackConfig
    /\ trackLayerLoaded(trackLayerLoaded(Cur, 2), 1).layerList[0][1].config
            = TrackConfig("minutes", 2, "points")
    /\ trackLayerLoaded(trackLayerLoaded(Cur, 2), 1).layerVisible[0]["track"]

----------------------------------------------------------------------------
(* C31 (the claim as stated): starting from the primary container visible,
   after any sequence of crossfade calls - any from/to pair, any t, in any
   order - at least one of the two view containers is not hidden.  The
   class "hidden" is written by crossfade only. *)
C31_OneContainerShown ==
    \E c \in Surfaces : ~hidden[c]

----------------------------------------------------------------------------
(* the slides shown on one surface: maps = [s] *)
SingleSurfaceSlides == {i \in ValidIndices : Len(At(slides, i).maps) = 1}

(* C32 (the claim as stated): after a hashchange to a slide with maps = [s]
   the container of surface s is not hidden, has opacity 1 and takes pointer
   input (its style is not 'none'), and the other surface's container is
   hidden - whatever slide was shown before. *)
C32_SingleSurfaceShown ==
    Loaded =>
        \A h \in SingleSurfaceSlides :
            LET r == hashListener(Cur, h)
                shown == At(slides, h).maps[1]
                other == 1 - shown
            IN  /\ ~r.hidden[shown]
                /\ r.opacity[shown] = 100
                /\ r.pointerEvents[shown] # "none"
                /\ r.hidden[other]

----------------------------------------------------------------------------
(* the slides whose time window has a positive step *)
SteppedSlides ==
    {i \in TimedSlides :
        At(slides, i).timeSlider.timeSliderStep
            * unitToMs(At(slides, i).timeSlider.timeSliderUnit) > 0}

(* C33 (the claim as stated): after a controller message for a slide with a
   time window has been processed, the time control's extent end is the
   snapped and clamped time interpolated for payload.progress - also on the
   message whose payload.slide differs from the last slide seen, where the
   discrete dispatch runs after the continuous one. *)
C33_MessageLeavesInterpolatedTime ==
    Loaded =>
        \A e \in BOOLEAN, i \in SteppedSlides, p \in ProgressValues :
            LET c == At(slides, i).timeSlider
                r == messageListener(Cur, e, i, p)
                stepMs == c.timeSliderStep * unitToMs(c.timeSliderUnit)
            IN  r.sliders[activeFor(Cur, At(slides, i)).ts].extentEnd
                    = ClampedTime(c.timeSliderStart, c.timeSliderEnd, stepMs, p)

----------------------------------------------------------------------------
(* nothing but the load of the choreography and the primary view's ready
   event has happened: no hashchange and no controller message *)
NoNavigationYet == hashIndex = Null /\ hashIndexLast = Null

(* C34 (the claim as stated): the ready event of the primary view never
   dispatches an undefined slide, and once the view is ready and the
   choreography is loaded, in whichever order, slide 0 has been applied to
   the primary view: the time control shows slide 0's time window. *)
C34_FirstSlideApplied ==
    /\ ~mapView => ~mapViewReadyListener(Cur).did.threw
    /\ (Loaded /\ mapView /\ NoNavigationYet /\ 0 \in TimedSlides)
        => /\ sliders[0].fullStart = At(slides, 0).timeSlider.timeSliderStart
           /\ sliders[0].fullEnd = At(slides, 0).timeSlider.timeSliderEnd

----------------------------------------------------------------------------
(* the slides whose first surface is the secondary view *)
SceneFirstSlides ==
    {i \in ValidIndices : At(slides, i).maps # NoMaps /\ At(slides, i).maps[1] = 1}

(* the layers and the environment of the secondary view are as slide i's
   discrete handlers leave them *)
AppliedToScene(i) ==
    LET sl == At(slides, i)
    IN  /\ sceneView # 0
        /\ sl.layerVisibility.present
            => /\ \A t \in sl.layerVisibility.layersOn : layerVisible[1][t]
               /\ \A t \in sl.layerVisibility.layersOff : ~layerVisible[1][t]
        /\ (sl.environment.present /\ sl.environment.weather.present)
            => environment[1].weather.type = sl.environment.weather.type

(* C35 (the claim as stated): when hash navigation has selected a slide
   whose first surface is the secondary view while that view was not live,
   then once the view is live the slide's discrete choreography is
   eventually applied to it (it shows the slide's layers and environment)
   unless navigation moves on to another slide.  A hashchange that finds
   the view live applies the slide in the same step, so the states with the
   slide selected, the view live and the slide not applied are those
   reached by the view becoming live after the navigation. *)
C35_LateSceneGetsSlide ==
    \A i \in 0 .. (Len(ChorLate) - 1) :
        (i \in SceneFirstSlides /\ hashIndex = i /\ sceneView # 0)
            ~> (hashIndex # i \/ AppliedToScene(i))

====
